---- MODULE Spec2Model ----
(***************************************************************************)
(* A model of the syncro_csv_importer batch importers.                     *)
(*                                                                         *)
(*   SpecAdhoc    the ad-hoc ticket importer (adhoc_ticket_format.run):    *)
(*                build_ticket_payload with its ensure_future fold, then   *)
(*                create_ticket_with_comments against the remote helpdesk. *)
(*   SpecPayload  build_ticket_payload alone, on one ticket, over every    *)
(*                kind of timestamp.                                       *)
(*   SpecLabor    the labor importer (main_ticket_labor.run_ticket_labor), *)
(*                run on a CSV and run again on the same CSV.              *)
(*   SpecSig      the two signature builders of the labor importer on a    *)
(*                row and a remote timer record of the same event.         *)
(*   SpecLaborLimit                                                        *)
(*                the labor importer run once with a max_entries limit.    *)
(*   SpecInvoice  the invoice importer (main_invoice_import).              *)
(*   SpecCombined the combined tickets-and-comments importer               *)
(*                (main_tickets_comments_combined.main).                   *)
(*   SpecContact, SpecTicketBody, SpecParse, SpecTimestamp, SpecRemoteSig  *)
(*                helper functions on their own: contact resolution, the   *)
(*                body of a combined-CSV ticket, the timestamp parser,     *)
(*                the timestamp normaliser and the signature of a remote   *)
(*                timer record, each applied once to its arguments.        *)
(*                                                                         *)
(* Time.  A naive datetime is a count of ticks, TicksPerSecond ticks to    *)
(* the second, so that sub-second fields exist.  A datetime is a record    *)
(* [tz, t]: tz says whether it carries a zone, t = -1 stands for None.     *)
(*                                                                         *)
(* Text.  A string is a sequence of character codes; digits are 0..9 and   *)
(* every other character is a larger number, so that sequence order is     *)
(* Python's string order.                                                  *)
(*                                                                         *)
(* The helper modules the importers call take the run configuration as a   *)
(* parameter; the model binds every call's arguments by role (the payload  *)
(* is the payload, the configuration is the configuration).                *)
(*                                                                         *)
(* The labor importer calls collaborators whose code is not among the      *)
(* sources: fetching, creating and charging timer entries, the lookup of a *)
(* technician's name by ID and parse_charge_flag.  They are modelled from  *)
(* their contracts: a call answers or fails, and the helpdesk keeps the    *)
(* fields of a payload it accepted.                                        *)
(* The same holds for the invoice helpers of syncro_utils, syncro_read     *)
(* and syncro_write that the invoice importer calls.                       *)
(***************************************************************************)
EXTENDS Integers, Sequences, FiniteSets, TLC

(***************************************************************************)
(* Bounds of the model.                                                    *)
(***************************************************************************)
TicksPerSecond == 2      \* resolution of a datetime below one second
MaxTick == 4             \* timestamps of the CSV lie in 0..MaxTick ticks
MaxComments == 2         \* comment rows per ticket in the ad-hoc CSV

(***************************************************************************)
(* Generic helpers.                                                        *)
(***************************************************************************)
\* Python's order on strings (sequences of character codes).
StrLess(a, b) ==
    \E k \in 1..(Len(a) + 1) :
        /\ k <= Len(b)
        /\ \A i \in 1..(k - 1) : i <= Len(a) /\ a[i] = b[i]
        /\ (k = Len(a) + 1 \/ a[k] < b[k])

RECURSIVE SortedStrings(_)
\* sorted(S) for a set S of strings
SortedStrings(S) ==
    IF S = {} THEN <<>>
    ELSE LET m == CHOOSE x \in S : \A y \in S \ {x} : StrLess(x, y)
         IN  <<m>> \o SortedStrings(S \ {m})

(***************************************************************************)
(* Datetimes and the raw timestamp cells of a CSV.                         *)
(***************************************************************************)
NoDatetime == [tz |-> FALSE, t |-> -1]

IsNone(d) == d.t < 0

Naive(t) == [tz |-> FALSE, t |-> t]

\* A cell is empty, unparseable text, or the text of a datetime with or
\* without a UTC offset.
TimeCells ==
    {[kind |-> "empty", t |-> 0], [kind |-> "bad", t |-> 0],
     [kind |-> "aware", t |-> 0]}
        \cup [kind : {"naive"}, t : 0..MaxTick]

\* The cells of the CSV of a whole run: one of each kind.
RunCells ==
    {[kind |-> "empty", t |-> 0], [kind |-> "naive", t |-> 0],
     [kind |-> "aware", t |-> 0]}

\* adhoc_ticket_format.parse_datetime: None for an empty value and for text
\* dateutil rejects, otherwise the datetime the text denotes.
parse_datetime(cell) ==
    CASE cell.kind = "empty" -> NoDatetime
      [] cell.kind = "bad"   -> NoDatetime
      [] cell.kind = "naive" -> [tz |-> FALSE, t |-> cell.t]
      [] cell.kind = "aware" -> [tz |-> TRUE, t |-> cell.t]

ensure_future_lt(previous, candidate) ==
    IF IsNone(candidate) \/ candidate.t < previous.t
    THEN [previous EXCEPT !.t = previous.t + TicksPerSecond]
    ELSE candidate

\* adhoc_ticket_format.ensure_future
ensure_future(previous, candidate) ==
    IF IsNone(candidate) \/ candidate.t <= previous.t
    THEN [previous EXCEPT !.t = previous.t + TicksPerSecond]
    ELSE candidate

\* syncro_utils.get_syncro_created_date on a naive datetime: the zone is
\* attached and the value is rendered by "%Y-%m-%dT%H:%M:%S%z", which has no
\* field below the second.  The result is the rendered second.
get_syncro_created_date(d) == d.t \div TicksPerSecond

\* get_syncro_created_date, line 745: pytz's localize() accepts a naive
\* datetime only and raises ValueError on one whose tzinfo is set; the
\* handlers of lines 752-757 log and re-raise.
get_syncro_created_date_raises(d) == d.tz

(***************************************************************************)
(* adhoc_ticket_format: the ticket dictionaries of the CSV and the payload *)
(* build_ticket_payload makes of one.                                      *)
(***************************************************************************)
Bodies == {"a", "b"}

\* CommentRow as csv_to_ticket_dicts appends it: only rows with a body, the
\* subject None unless the CSV has one.
CommentTexts == {[body |-> "a", subject |-> ""], [body |-> "b", subject |-> "s"]}

CommentRows(cells) ==
    {[body |-> x.body, created_at |-> c, subject |-> x.subject] :
        x \in CommentTexts, c \in cells}

\* The texts of a ticket: description and change plan, each possibly absent.
TicketTexts == {[description |-> "", change_plan |-> ""],
                [description |-> "a", change_plan |-> "a"]}

\* The operator's optional default for created_at (load_defaults_from_user).
DefaultCells == {[kind |-> "empty", t |-> 0], [kind |-> "naive", t |-> 1]}

\* datetime.now() at the time of the build
NowTicks == {0, 3}

Subject(name, n) == [name |-> name, n |-> n]

\* adhoc_ticket_format.build_comment_payload: subject, body and the rendered
\* created_at; `at` keeps the datetime that was passed in.
build_comment_payload(subject, body, created_at) ==
    [subject    |-> subject,
     body       |-> body,
     at         |-> created_at.t,
     created_at |-> get_syncro_created_date(created_at)]

\* created_raw of build_ticket_payload (line 273)
CreatedRaw(ticket, defaults) ==
    IF ticket.created_at.kind # "empty" THEN ticket.created_at ELSE defaults

\* base_datetime of build_ticket_payload (line 274)
BaseDatetime(ticket, defaults, now) ==
    LET parsed == parse_datetime(CreatedRaw(ticket, defaults))
    IN  IF IsNone(parsed) THEN Naive(now) ELSE parsed

\* candidate of build_ticket_payload (line 289)
Candidate(comment) ==
    IF comment.created_at.kind # "empty"
    THEN parse_datetime(comment.created_at)
    ELSE NoDatetime

\* One iteration of the loop of build_ticket_payload (lines 286-295) for a
\* comment with a body: the new current_datetime, the comment payload that is
\* appended, and the ensure_future call that was made.
comment_step(current, comment, offset) ==
    LET candidate == Candidate(comment)
        next == ensure_future(current, candidate)
        subject == IF comment.subject # "" THEN Subject(comment.subject, 0)
                   ELSE Subject("Comment", offset + 2)
    IN  [current |-> next,
         event   |-> build_comment_payload(subject, comment.body, next),
         call    |-> [previous |-> current.t, candidate |-> candidate.t,
                      result |-> next.t]]

change_plan_time_same(base) == base

\* change_plan_time of build_ticket_payload (line 281)
change_plan_time(base) ==
    ensure_future(base, [base EXCEPT !.t = base.t + TicksPerSecond])

description_text(ticket) ==
    IF ticket.description # "" THEN ticket.description
    ELSE "Description not provided"

\* change_plan_text of build_ticket_payload (line 277)
change_plan_text(ticket) ==
    IF ticket.change_plan # "" THEN ticket.change_plan ELSE "none"

\* Lines 273-282 of build_ticket_payload: the Description comment at the base
\* datetime and the Change Plan comment after it.
payload_head(ticket, defaults, now) ==
    LET base == BaseDatetime(ticket, defaults, now)
    IN  <<build_comment_payload(Subject("Description", 0),
                                description_text(ticket), base),
          build_comment_payload(Subject("Change Plan", 0),
                                change_plan_text(ticket), change_plan_time(base))>>

(***************************************************************************)
(* Ticket numbers.                                                         *)
(***************************************************************************)
IsDigit(c) == c \in 0..9

\* syncro_utils.clean_syncro_ticket_number: the digits of the text
clean_syncro_ticket_number(text) == SelectSeq(text, IsDigit)

\* `clean_syncro_ticket_number(raw) or raw`
CleanedNumber(raw) ==
    IF clean_syncro_ticket_number(raw) # <<>>
    THEN clean_syncro_ticket_number(raw) ELSE raw

\* The ticket numbers of the ad-hoc CSV: "9", "10" and "T10".
AdhocNumbers == {<<9>>, <<1, 0>>, <<36, 1, 0>>}

AdhocCleanNumbers == {CleanedNumber(n) : n \in AdhocNumbers}

AllBodies == Bodies \cup {"none", "Description not provided"}

(***************************************************************************)
(* Labor import: text.  A text value is [s, up, pad]: s is the text        *)
(* stripped and lower-cased, up says that it has upper-case letters, pad   *)
(* that it has surrounding whitespace.  None and "" are both NoText.       *)
(***************************************************************************)
Text(s, up, pad) == [s |-> s, up |-> up, pad |-> pad]

NoText == Text("", FALSE, FALSE)

\* Python's truth value of a string
Truthy(x) == x.s # "" \/ x.pad

\* main_ticket_labor._normalize_text: str(value).strip()
_normalize_text(value) == [value EXCEPT !.pad = FALSE]

\* main_ticket_labor._normalize_text_lower
_normalize_text_lower(value) == [_normalize_text(value) EXCEPT !.up = FALSE]

\* The first position of a sequence of truth values that is true, else the
\* last position: which operand `a or b or ...` returns
FirstTrue(truths) ==
    IF \E i \in 1..Len(truths) : truths[i]
    THEN CHOOSE i \in 1..Len(truths) : truths[i] /\ \A j \in 1..(i - 1) : ~truths[j]
    ELSE Len(truths)

\* `a or b or ...` on strings
OrText(operands) ==
    operands[FirstTrue([i \in 1..Len(operands) |-> Truthy(operands[i])])]

(***************************************************************************)
(* Labor import: timestamps.  A timestamp string is [kind, wall, off]:     *)
(* "naive" is a wall-clock time of wall seconds, "aware" carries the       *)
(* offset off (seconds east of UTC) as well, "bad" is a string that does   *)
(* not parse (wall then identifies the string), "none" is None or "".      *)
(***************************************************************************)
Stamp(kind, wall, off) == [kind |-> kind, wall |-> wall, off |-> off]

NoStamp == Stamp("none", 0, 0)

StampTruthy(x) == x.kind # "none"

\* `a or b or ...` on timestamp strings
OrStamp(operands) ==
    operands[FirstTrue([i \in 1..Len(operands) |-> StampTruthy(operands[i])])]

\* syncro_utils.parse_comment_created: the datetime, or None
parse_comment_created(comment_created) ==
    IF comment_created.kind \in {"naive", "aware"}
    THEN comment_created ELSE NoStamp

\* SYNCRO_TIMEZONE is America/New_York: local standard time is this many
\* seconds behind UTC.
ZoneBehindUtc == 18000

SecondsPerMinute == 60

\* localize() where needed, then astimezone(timezone.utc): seconds in UTC
UtcSeconds(parsed) ==
    IF parsed.kind = "naive" THEN parsed.wall + ZoneBehindUtc
    ELSE parsed.wall - parsed.off

SigTime(kind, v) == [kind |-> kind, v |-> v]

\* main_ticket_labor._normalize_timestamp: "" for nothing, the raw string
\* when it does not parse, else the UTC time with second=0, microsecond=0
_normalize_timestamp(value) ==
    IF value.kind = "none" THEN SigTime("empty", 0)
    ELSE IF parse_comment_created(value).kind = "none"
         THEN SigTime("raw", value.wall)
         ELSE SigTime("utc",
                      (UtcSeconds(parse_comment_created(value)) \div SecondsPerMinute)
                          * SecondsPerMinute)

\* main_ticket_labor._make_timer_compare_signature
_make_timer_compare_signature(notes, tech, created_at) ==
    [notes |-> _normalize_text(notes),
     tech |-> _normalize_text_lower(tech),
     ts |-> _normalize_timestamp(created_at)]

NoSignature == [notes |-> NoText, tech |-> NoText, ts |-> SigTime("empty", 0)]

(***************************************************************************)
(* Labor import: the technician directory and the tech of a remote timer.  *)
(***************************************************************************)
\* temp_data["techs"]: technician 42 is "Jane Doe"
Techs == {[id |-> 42, name |-> Text("jane doe", TRUE, FALSE)]}

\* str() of a technician ID
IdText(id) == IF id = 42 THEN Text("42", FALSE, FALSE) ELSE Text("id", FALSE, FALSE)

\* syncro_utils.get_syncro_tech: the ID of the technician of that name,
\* compared stripped and lower-cased; 0 stands for None
get_syncro_tech(tech_name) ==
    IF \E t \in Techs : _normalize_text_lower(t.name) = _normalize_text_lower(tech_name)
    THEN (CHOOSE t \in Techs :
              _normalize_text_lower(t.name) = _normalize_text_lower(tech_name)).id
    ELSE 0

\* A value of a tech field of a remote timer: nothing, a string, a number
\* or an object with name, full_name, display_name, email and id.
NoUser == [name |-> NoText, full_name |-> NoText, display_name |-> NoText,
           email |-> NoText, id |-> 0]

NoneVal == [kind |-> "none", text |-> NoText, id |-> 0, sub |-> NoUser]

TextVal(t) == [kind |-> "text", text |-> t, id |-> 0, sub |-> NoUser]

IdVal(i) == IF i = 0 THEN NoneVal
            ELSE [kind |-> "id", text |-> NoText, id |-> i, sub |-> NoUser]

DictVal(u) == [kind |-> "dict", text |-> NoText, id |-> 0, sub |-> u]

ValTruthy(v) ==
    \/ v.kind = "text" /\ Truthy(v.text)
    \/ v.kind = "id"
    \/ v.kind = "dict"

\* `a or b or ...` on the values of tech fields
OrVal(operands) ==
    operands[FirstTrue([i \in 1..Len(operands) |-> ValTruthy(operands[i])])]

\* get_syncro_tech_name_by_id: the display name the directory has for the
\* ID, or nothing
get_syncro_tech_name_by_id(candidate) ==
    IF candidate.kind = "id" /\ \E t \in Techs : t.id = candidate.id
    THEN (CHOOSE t \in Techs : t.id = candidate.id).name
    ELSE NoText

\* One turn of the loop over tech_candidates (lines 267-276): the name the
\* candidate gives, NoText when the loop goes on to the next candidate
candidate_name(candidate) ==
    IF ~ValTruthy(candidate) THEN NoText
    ELSE IF Truthy(get_syncro_tech_name_by_id(candidate))
         THEN get_syncro_tech_name_by_id(candidate)
         ELSE IF candidate.kind = "id" THEN IdText(candidate.id)
              ELSE _normalize_text(candidate.text)

(***************************************************************************)
(* Labor import: remote timer records and the two signature builders.      *)
(***************************************************************************)
NotesFields == <<"notes", "body", "description", "comment", "entry">>

TimeFields == <<"start_at", "start_time", "created_at", "timer_start", "created">>

\* A remote timer record with no field set
NoTimer ==
    [notes |-> NoText, body |-> NoText, description |-> NoText,
     comment |-> NoText, entry |-> NoText,
     tech |-> NoneVal, user_name |-> NoneVal, user |-> NoneVal,
     user_id |-> NoneVal, userId |-> NoneVal, userID |-> NoneVal,
     start_at |-> NoStamp, start_time |-> NoStamp, created_at |-> NoStamp,
     timer_start |-> NoStamp, created |-> NoStamp]

\* lines 246-258: tech_value, unwrapped when it is an object
tech_value(timer) ==
    LET outer == OrVal(<<timer.tech, timer.user_name, timer.user, timer.user_id>>)
    IN  IF outer.kind = "dict"
        THEN OrVal(<<TextVal(outer.sub.name), TextVal(outer.sub.full_name),
                     TextVal(outer.sub.display_name), TextVal(outer.sub.email),
                     IdVal(outer.sub.id)>>)
        ELSE outer

\* lines 260-279: resolved_tech, the name of the first candidate that gives one
resolved_tech(timer) ==
    OrText(<<candidate_name(tech_value(timer)), candidate_name(timer.user_id),
             candidate_name(timer.userId), candidate_name(timer.userID), NoText>>)

\* _make_remote_timer_signature reading the tech fields as they are
_make_remote_timer_signature_unresolved(timer) ==
    _make_timer_compare_signature(
        OrText(<<timer.notes, timer.body, timer.description, timer.comment,
                 timer.entry>>),
        IF tech_value(timer).kind = "id" THEN IdText(tech_value(timer).id)
        ELSE tech_value(timer).text,
        OrStamp(<<timer.start_at, timer.start_time, timer.created_at,
                  timer.timer_start, timer.created>>))

\* main_ticket_labor._make_remote_timer_signature
_make_remote_timer_signature(timer) ==
    _make_timer_compare_signature(
        OrText(<<timer.notes, timer.body, timer.description, timer.comment,
                 timer.entry>>),
        resolved_tech(timer),
        OrStamp(<<timer.start_at, timer.start_time, timer.created_at,
                  timer.timer_start, timer.created>>))

\* main_ticket_labor._make_entry_timer_signature
_make_entry_timer_signature(entry) ==
    _make_timer_compare_signature(entry.notes, entry.tech, entry.created_at)

\* main_ticket_labor._make_entry_signature without the cleaning of the
\* ticket number
_make_entry_signature_raw(entry) ==
    [ticket_number |-> entry.ticket_number,
     entry_sequence |-> entry.entry_sequence,
     created_at |-> entry.created_at,
     duration_minutes |-> entry.duration_minutes,
     tech |-> _normalize_text_lower(entry.tech),
     notes |-> _normalize_text(entry.notes)]

\* main_ticket_labor._make_entry_signature
_make_entry_signature(entry) ==
    [ticket_number |-> CleanedNumber(entry.ticket_number),
     entry_sequence |-> entry.entry_sequence,
     created_at |-> entry.created_at,
     duration_minutes |-> entry.duration_minutes,
     tech |-> _normalize_text_lower(entry.tech),
     notes |-> _normalize_text(entry.notes)]

(***************************************************************************)
(* Labor import: the rows of the CSV.  load_csv refuses a CSV with a blank *)
(* cell, so every field of a row has text.  A duration is [raw, kind,      *)
(* tenths]: the text, whether float() reads it as a finite number          *)
(* ("number"), as infinity ("inf") or not at all ("text"), and ten times   *)
(* the number.                                                             *)
(***************************************************************************)
MaxRows == 2             \* rows of the labor CSV
MaxRuns == 2             \* runs of run_ticket_labor on the same CSV

Duration(raw, kind, tenths) == [raw |-> raw, kind |-> kind, tenths |-> tenths]

Row(ticket_number, entry_sequence, created_at, duration_minutes, tech, notes, charge) ==
    [ticket_number |-> ticket_number, entry_sequence |-> entry_sequence,
     created_at |-> created_at, duration_minutes |-> duration_minutes,
     tech |-> tech, notes |-> notes, charge |-> charge]

JaneDoe == Text("jane doe", TRUE, FALSE)      \* "Jane Doe"
JaneLower == Text("jane doe", FALSE, FALSE)     \* "jane doe"
Bob == Text("bob", TRUE, FALSE)               \* "Bob", not a technician

\* Rows on ticket 10: a plain row; the same row written differently ("T10",
\* "jane doe", padded notes); a row in the same minute with the same notes
\* and tech; a row whose tech is not in the directory.
RowsOfTicket10 ==
    {Row(<<1, 0>>, 1, Stamp("naive", 0, 0), Duration("30", "number", 300), JaneDoe,
         Text("n1", FALSE, FALSE), "yes"),
     Row(<<36, 1, 0>>, 1, Stamp("naive", 0, 0), Duration("30", "number", 300), JaneLower,
         Text("n1", FALSE, TRUE), "no"),
     Row(<<1, 0>>, 2, Stamp("naive", 30, 0), Duration("15.5", "number", 155), JaneLower,
         Text("n1", FALSE, FALSE), "no"),
     Row(<<1, 0>>, 3, Stamp("aware", 60, 0), Duration("30", "number", 300), Bob,
         Text("n2", TRUE, FALSE), "yes")}

\* Rows on ticket 9: a zero duration, a timestamp that does not parse, a
\* duration that is not a number, a plain row, a duration of "inf".
RowsOfTicket9 ==
    {Row(<<9>>, 1, Stamp("naive", 0, 0), Duration("0", "number", 0), JaneDoe,
         Text("n1", FALSE, FALSE), "yes"),
     Row(<<9>>, 2, Stamp("bad", 1, 0), Duration("30", "number", 300), JaneDoe,
         Text("n2", FALSE, FALSE), "no"),
     Row(<<9>>, 3, Stamp("naive", 120, 0), Duration("x", "text", 0), JaneDoe,
         Text("n2", FALSE, FALSE), "no"),
     Row(<<9>>, 4, Stamp("naive", 120, 0), Duration("45", "number", 450), JaneDoe,
         Text("n2", FALSE, FALSE), "yes"),
     Row(<<9>>, 5, Stamp("naive", 180, 0), Duration("inf", "inf", 0), JaneDoe,
         Text("n1", FALSE, FALSE), "no")}

\* Rows on tickets the helpdesk does not have (7), returns without an ID
\* (8), or returns with an ID that is not an integer (5).
RowsOfOtherTickets ==
    {Row(<<n>>, 1, Stamp("naive", 0, 0), Duration("30", "number", 300), JaneDoe,
         Text("n1", FALSE, FALSE), "no") : n \in {5, 7, 8}}

LaborRows == RowsOfTicket10 \cup RowsOfTicket9 \cup RowsOfOtherTickets

\* Rows of a CSV file with a blank cell: no ticket number, no duration.
RowsWithBlankCell ==
    {Row(<<>>, 1, Stamp("naive", 0, 0), Duration("30", "number", 300), JaneDoe,
         Text("n1", FALSE, FALSE), "no"),
     Row(<<9>>, 6, Stamp("naive", 0, 0), Duration("", "text", 0), JaneDoe,
         Text("n2", FALSE, FALSE), "no")}

CsvRows == LaborRows \cup RowsWithBlankCell

\* load_csv, lines 398-414: a cell that is None or blank after strip(), in a
\* column without a default, raises ValueError.
blank_cell(row) ==
    \/ row.ticket_number = <<>>
    \/ row.duration_minutes.raw = ""
    \/ row.created_at.kind = "none"
    \/ row.tech.s = ""
    \/ row.notes.s = ""

\* load_csv, lines 383-416: the rows are read in file order and the first
\* blank cell ends the load.
load_csv_raises(file_rows) ==
    \E i \in 1..Len(file_rows) : blank_cell(file_rows[i])

\* get_syncro_ticket_by_number for labor: [found, id]; id 0 is a ticket
\* without an ID, a negative id one whose ID is not an integer.
TicketRef(found, id) == [found |-> found, id |-> id]

NoTicketRef == TicketRef(FALSE, 0)

LaborTicket(cleaned) ==
    CASE cleaned = <<1, 0>> -> TicketRef(TRUE, 1)
      [] cleaned = <<9>> -> TicketRef(TRUE, 2)
      [] cleaned = <<8>> -> TicketRef(TRUE, 0)
      [] cleaned = <<5>> -> TicketRef(TRUE, -1)
      [] OTHER -> NoTicketRef

LaborTicketIds == {1, 2}

\* int(float(text)) of a sequence number or a duration, from its tenths
IntOfFloat(tenths) == tenths \div 10

\* _sort_labor_entries.sort_key: (cleaned ticket number, sequence)
sort_key(entry) ==
    [cleaned |-> CleanedNumber(entry.ticket_number), sequence |-> entry.entry_sequence]

KeyLess(a, b) ==
    \/ StrLess(a.cleaned, b.cleaned)
    \/ a.cleaned = b.cleaned /\ a.sequence < b.sequence

\* sorted(entries, key=sort_key): Python's sort is stable
RECURSIVE _sort_labor_entries(_)
_sort_labor_entries(entries) ==
    IF entries = <<>> THEN <<>>
    ELSE LET n == Len(entries)
             front == _sort_labor_entries(SubSeq(entries, 1, n - 1))
             last == entries[n]
             k == Cardinality({i \in 1..(n - 1) :
                                  ~KeyLess(sort_key(last), sort_key(front[i]))})
         IN  SubSeq(front, 1, k) \o <<last>> \o SubSeq(front, k + 1, n - 1)

NoPayload == [ok |-> FALSE, start_at |-> NoStamp, end_at |-> NoStamp,
              duration_minutes |-> 0, notes |-> NoText, user_id |-> 0]

\* created_at.isoformat() after localize(): the wall time with its offset
Localized(parsed) ==
    IF parsed.kind = "naive" THEN Stamp("aware", parsed.wall, 0 - ZoneBehindUtc)
    ELSE parsed

\* syncro_prepare_ticket_labor_json, lines 1050-1052: int(float(raw)) raises
\* OverflowError on an infinite float, and only TypeError and ValueError
\* are caught
prepare_raises(labor_entry, ticket) ==
    ticket.found /\ labor_entry.duration_minutes.kind = "inf"

\* syncro_utils.syncro_prepare_ticket_labor_json: the payload, or None when
\* there is no ticket, the duration is not a number above zero or the
\* timestamp does not parse.  user_id 0 is a payload without user_id.
syncro_prepare_ticket_labor_json(labor_entry, ticket) ==
    LET duration_minutes == IntOfFloat(labor_entry.duration_minutes.tenths)
        created_at == parse_comment_created(labor_entry.created_at)
    IN  IF \/ ~ticket.found
           \/ labor_entry.duration_minutes.kind # "number"
           \/ duration_minutes <= 0
           \/ created_at.kind = "none"
        THEN NoPayload
        ELSE [ok |-> TRUE,
              start_at |-> Localized(created_at),
              end_at |-> [Localized(created_at) EXCEPT
                            !.wall = @ + duration_minutes * SecondsPerMinute],
              duration_minutes |-> duration_minutes,
              notes |-> labor_entry.notes,
              user_id |-> get_syncro_tech(labor_entry.tech)]

\* parse_charge_flag: whether the row asks for the timer to be charged
parse_charge_flag(flag) == flag = "yes"

\* The timer record the helpdesk holds for an accepted payload: the fields
\* it was sent, under the names they were sent with.
stored_timer(p) ==
    [NoTimer EXCEPT !.notes = p.notes, !.user_id = IdVal(p.user_id),
                    !.start_at = p.start_at]

\* _get_existing_timer_signatures, lines 343-362: the signatures of the
\* records fetched, those with no comparable field left out
remote_signatures(timers) ==
    {_make_remote_timer_signature(t) : t \in timers} \ {NoSignature}

EmptyMap == [k \in {} |-> 0]

Put(m, k, v) == [x \in DOMAIN m \cup {k} |-> IF x = k THEN v ELSE m[x]]

Call(op, row, ticket_id, ok) ==
    [op |-> op, row |-> row, ticket_id |-> ticket_id, ok |-> ok]

(***************************************************************************)
(* State.                                                               *)
(***************************************************************************)
VARIABLES
    \* adhoc_ticket_format.run
    apc,            \* where run() is: "next", "build", "create", "push", "done", "crashed"
    todo,           \* the ticket numbers sorted(tickets) has still to yield
    defaults,       \* the operator's default for created_at
    number,         \* the cleaned number of the ticket in hand
    ticketIn,       \* created_at, description and change_plan of the ticket in hand
    baseNow,        \* the value datetime.now() had in build_ticket_payload
    rows,           \* the comment rows of the ticket read so far
    current,        \* current_datetime of build_ticket_payload
    events,         \* the payloads built: Description, Change Plan, comments
    lastCall,       \* the last application of ensure_future
    created,        \* create_ticket_with_comments saw the ticket created
    pushIdx,        \* the next entry of events to push
    commentCalls,   \* the payloads handed to syncro_create_comment for the ticket
    created_count,  \* run()'s created_count
    \* the remote helpdesk
    remoteTickets,  \* the ticket numbers that exist
    ticketBodies    \* the bodies of the comments of the ticket in hand

VARIABLES
    \* main_ticket_labor.run_ticket_labor
    lpc,                    \* where the run is: "setup", "loop", "ensure", "fetch", "create",
                            \* "charge", "done", "crashed", "aborted"
    labor_csv,              \* the rows of the labor CSV file, as written
    run_no,                 \* which run of run_ticket_labor on the CSV this is
    sorted_entries,         \* sorted_entries, the rows of the CSV in processing order
    max_entries,            \* the max_entries argument; -1 stands for None
    idx,                    \* the position of the for loop in sorted_entries
    ticket_cache,           \* ticket_cache, by cleaned ticket number
    ticket_timer_cache,     \* ticket_timer_cache, by ticket ID
    processed_signatures,   \* processed_signatures
    entries_attempted,      \* entries_attempted
    ticket_id_int,          \* ticket_id_int of the row in hand
    payload,                \* payload of the row in hand
    entry_timer_signature,  \* entry_timer_signature of the row in hand
    timer_entry_id,         \* the ID extracted from the response to the create call
    trail,                  \* per row, the steps of the decision procedure taken
    api_calls,                  \* the external calls of this run, in order
    prior_ok,               \* no external call of an earlier run failed
    \* the remote helpdesk, for labor
    remote_timers,          \* per ticket ID, the timer entries the ticket holds
    \* the signature builders on their own
    sig_entry,              \* a labor row
    sig_timer,              \* a remote timer record
    sig_pair,               \* the signatures built from the two
    \* the helper functions on their own
    fn_args,                \* the arguments of the call
    fn_result               \* what the call returned, once it was made

adhocVars == <<apc, todo, defaults, number, ticketIn, baseNow, rows, current,
               events, lastCall, created, pushIdx, commentCalls, created_count>>

remoteVars == <<remoteTickets, ticketBodies>>

laborVars == <<lpc, labor_csv, run_no, sorted_entries, max_entries, idx, ticket_cache,
               ticket_timer_cache, processed_signatures, entries_attempted,
               ticket_id_int, payload, entry_timer_signature, timer_entry_id,
               trail, api_calls, prior_ok, remote_timers>>

sigVars == <<sig_entry, sig_timer, sig_pair>>

fnVars == <<fn_args, fn_result>>

\* main_invoice_import.run_invoice_import: the rows of the invoice CSV, the
\* loop over grouped_rows, the numbers known to exist, the three counters,
\* the create calls made, and the invoice numbers the helpdesk holds when
\* the run begins.
VARIABLES ipc, invoice_rows, group_idx, existing_invoice_numbers, imported,
          skipped_duplicates, failed, invoice_calls, remote_invoices

invoiceVars == <<ipc, invoice_rows, group_idx, existing_invoice_numbers, imported,
                 skipped_duplicates, failed, invoice_calls, remote_invoices>>

VARIABLES
    \* main_tickets_comments_combined.main
    cpc,               \* where main is: "ticket", "rows", "done", "crashed"
    tickets_in_order,  \* tickets_in_order, the tickets of the combined CSV
    ticket_index,      \* the position of the outer for loop in tickets_in_order
    row_index,         \* index, the position of the inner loop in the ticket's rows
    combined_calls     \* the lookups main made and the create requests sent

combinedVars == <<cpc, tickets_in_order, ticket_index, row_index, combined_calls>>

vars == <<adhocVars, remoteVars, laborVars, sigVars, fnVars, invoiceVars,
          combinedVars>>

NoCall == [previous |-> -1, candidate |-> -1, result |-> -1]

NoTicket == [created_at |-> [kind |-> "empty", t |-> 0],
             description |-> "", change_plan |-> ""]

NoPair == [built |-> FALSE, entry |-> NoSignature, timer |-> NoSignature]

\* The state of an importer that is not run.
AdhocIdle ==
    /\ apc = "done"
    /\ todo = <<>>
    /\ defaults = [kind |-> "empty", t |-> 0]
    /\ number = <<>>
    /\ ticketIn = NoTicket
    /\ baseNow = 0
    /\ rows = <<>>
    /\ current = NoDatetime
    /\ events = <<>>
    /\ lastCall = NoCall
    /\ created = FALSE
    /\ pushIdx = 0
    /\ commentCalls = <<>>
    /\ created_count = 0
    /\ remoteTickets = {}
    /\ ticketBodies = {}

LaborIdle ==
    /\ lpc = "done"
    /\ labor_csv = <<>>
    /\ run_no = 1
    /\ sorted_entries = <<>>
    /\ max_entries = -1
    /\ idx = 1
    /\ ticket_cache = EmptyMap
    /\ ticket_timer_cache = EmptyMap
    /\ processed_signatures = {}
    /\ entries_attempted = 0
    /\ ticket_id_int = 0
    /\ payload = NoPayload
    /\ entry_timer_signature = NoSignature
    /\ timer_entry_id = 0
    /\ trail = <<>>
    /\ api_calls = <<>>
    /\ prior_ok = TRUE
    /\ remote_timers = [t \in LaborTicketIds |-> {}]

SigIdle ==
    /\ sig_entry = NoSignature
    /\ sig_timer = NoTimer
    /\ sig_pair = NoPair

NotCalled == [fn |-> "none"]

FnIdle ==
    /\ fn_args = NotCalled
    /\ fn_result = NotCalled

InvoiceIdle ==
    /\ ipc = "done"
    /\ invoice_rows = <<>>
    /\ group_idx = 1
    /\ existing_invoice_numbers = {}
    /\ imported = 0
    /\ skipped_duplicates = 0
    /\ failed = 0
    /\ invoice_calls = <<>>
    /\ remote_invoices = {}

CombinedIdle ==
    /\ cpc = "done"
    /\ tickets_in_order = <<>>
    /\ ticket_index = 1
    /\ row_index = 0
    /\ combined_calls = <<>>

(***************************************************************************)
(* syncro_write: creating comments and tickets.  Each external request has *)
(* an outcome the program does not control: a lookup answers or raises, a  *)
(* POST is accepted or not.                                                *)
(***************************************************************************)
LookupOutcomes == {"ok", "raise"}
PostOutcomes == {"ok", "fail"}

\* syncro_write.syncro_create_comment: whether the comment is POSTed and
\* accepted.  The ticket is looked up by number; the comment is dropped when
\* the ticket is not found or already has a comment with the same body.
comment_posted(comment, num, lookup, post, tickets, bodies) ==
    /\ lookup = "ok"
    /\ num \in tickets
    /\ comment.body \notin bodies
    /\ post = "ok"

\* syncro_write.syncro_create_ticket up to the POST (lines 84-108): whether
\* the ticket is created.  A taken number, a failed lookup and a refused POST
\* all end in None.
ticket_created(num, lookup, post, tickets) ==
    /\ lookup = "ok"
    /\ num \notin tickets
    /\ post = "ok"

(***************************************************************************)
(* adhoc_ticket_format.run                                                 *)
(***************************************************************************)
AdhocInitWith(numberSets, defaultCells) ==
    /\ apc = "next"
    /\ \E S \in numberSets : todo = SortedStrings(S)
    /\ defaults \in defaultCells
    /\ number = <<>>
    /\ ticketIn = NoTicket
    /\ baseNow = 0
    /\ rows = <<>>
    /\ current = NoDatetime
    /\ events = <<>>
    /\ lastCall = NoCall
    /\ created = FALSE
    /\ pushIdx = 0
    /\ commentCalls = <<>>
    /\ created_count = 0
    /\ remoteTickets \in SUBSET AdhocCleanNumbers
    /\ ticketBodies = {}
    /\ LaborIdle
    /\ SigIdle
    /\ FnIdle
    /\ InvoiceIdle
    /\ CombinedIdle

\* run(), lines 421-424, and build_ticket_payload, lines 268-285: the next
\* ticket of sorted(tickets) is taken and its Description and Change Plan
\* comments are built.  A created_at that carries a zone makes
\* get_syncro_created_date raise, which ends run().
AdhocBuildStart(cells, nows) ==
    /\ UNCHANGED <<laborVars, sigVars, fnVars,
                 invoiceVars, combinedVars>>
    /\ apc = "next"
    /\ todo # <<>>
    /\ \E cell \in cells, texts \in TicketTexts, now \in nows :
         LET ticket == [created_at |-> cell,
                        description |-> texts.description,
                        change_plan |-> texts.change_plan]
             base == BaseDatetime(ticket, defaults, now)
         IN  /\ number' = CleanedNumber(Head(todo))
             /\ todo' = Tail(todo)
             /\ ticketIn' = ticket
             /\ baseNow' = now
             /\ rows' = <<>>
             /\ created' = FALSE
             /\ pushIdx' = 0
             /\ commentCalls' = <<>>
             /\ ticketBodies' = {}
             /\ IF get_syncro_created_date_raises(base)
                THEN /\ apc' = "crashed"
                     /\ current' = NoDatetime
                     /\ events' = <<>>
                     /\ lastCall' = NoCall
                ELSE /\ apc' = "build"
                     /\ current' = change_plan_time(base)
                     /\ events' = payload_head(ticket, defaults, now)
                     /\ lastCall' = [previous |-> base.t,
                                     candidate |-> base.t + TicksPerSecond,
                                     result |-> change_plan_time(base).t]
    /\ UNCHANGED <<defaults, created_count, remoteTickets>>

\* build_ticket_payload, lines 286-295: one comment row of the ticket.  A
\* timestamp that carries a zone cannot be compared with the naive
\* current_datetime: ensure_future raises, which ends run().
AdhocBuildComment(cells) ==
    /\ UNCHANGED <<laborVars, sigVars, fnVars,
                 invoiceVars, combinedVars>>
    /\ apc = "build"
    /\ Len(rows) < MaxComments
    /\ \E comment \in CommentRows(cells) :
         LET step == comment_step(current, comment, Len(rows) + 1)
         IN  IF Candidate(comment).tz
             THEN /\ apc' = "crashed"
                  /\ UNCHANGED <<rows, current, events, lastCall>>
             ELSE /\ apc' = "build"
                  /\ rows' = Append(rows, [body |-> comment.body,
                                           subject |-> comment.subject,
                                           parsed |-> ~IsNone(Candidate(comment))])
                  /\ current' = step.current
                  /\ events' = Append(events, step.event)
                  /\ lastCall' = step.call
    /\ UNCHANGED <<todo, defaults, number, ticketIn, baseNow, created, pushIdx,
                   commentCalls, created_count, remoteVars>>

\* build_ticket_payload, lines 297-328, and enrich_payload_with_ids: the
\* payload is complete.
AdhocBuildFinish ==
    /\ UNCHANGED <<laborVars, sigVars, fnVars,
                 invoiceVars, combinedVars>>
    /\ apc = "build"
    /\ apc' = "create"
    /\ UNCHANGED <<todo, defaults, number, ticketIn, baseNow, rows, current,
                   events, lastCall, created, pushIdx, commentCalls,
                   created_count, remoteVars>>

push_nothing(calls, comment) == calls

\* push_comment of create_ticket_with_comments (lines 375-378) and the call
\* of line 117 of syncro_create_ticket: the payloads syncro_create_comment has
\* been called with
push_comment(calls, comment) == Append(calls, comment)

\* create_ticket_with_comments, lines 362-373, with syncro_create_ticket: the
\* ticket is POSTed with the Description in comments_attributes and, when it
\* was created, syncro_create_comment is called for the Description (line
\* 117).  The remote may or may not have stored comments_attributes itself.
AdhocCreateTicket ==
    /\ UNCHANGED <<laborVars, sigVars, fnVars,
                 invoiceVars, combinedVars>>
    /\ apc = "create"
    /\ \E lookup \in LookupOutcomes, post \in PostOutcomes, stored \in BOOLEAN,
          lookup2 \in LookupOutcomes, post2 \in PostOutcomes :
         IF ticket_created(number, lookup, post, remoteTickets)
         THEN LET tickets1 == remoteTickets \cup {number}
                  bodies1 == IF stored THEN {events[1].body} ELSE {}
              IN  /\ remoteTickets' = tickets1
                  /\ ticketBodies' =
                        IF comment_posted(events[1], number, lookup2, post2,
                                          tickets1, bodies1)
                        THEN bodies1 \cup {events[1].body}
                        ELSE bodies1
                  /\ commentCalls' = push_comment(commentCalls, events[1])
                  /\ created' = TRUE
                  /\ pushIdx' = 2
                  /\ apc' = "push"
         ELSE /\ stored /\ lookup2 = "ok" /\ post2 = "ok"
              /\ apc' = "next"
              /\ UNCHANGED <<created, pushIdx, commentCalls, remoteVars>>
    /\ UNCHANGED <<todo, defaults, number, ticketIn, baseNow, rows, current,
                   events, lastCall, created_count>>

\* create_ticket_with_comments, lines 380-382: the next of the Change Plan
\* comment and the additional comments is pushed.
AdhocPushComment ==
    /\ UNCHANGED <<laborVars, sigVars, fnVars,
                 invoiceVars, combinedVars>>
    /\ apc = "push"
    /\ pushIdx <= Len(events)
    /\ \E lookup \in LookupOutcomes, post \in PostOutcomes :
         /\ commentCalls' = push_comment(commentCalls, events[pushIdx])
         /\ ticketBodies' =
               IF comment_posted(events[pushIdx], number, lookup, post,
                                 remoteTickets, ticketBodies)
               THEN ticketBodies \cup {events[pushIdx].body}
               ELSE ticketBodies
    /\ pushIdx' = pushIdx + 1
    /\ UNCHANGED <<apc, todo, defaults, number, ticketIn, baseNow, rows, current,
                   events, lastCall, created, created_count, remoteTickets>>

\* create_ticket_with_comments returns True (line 384) and run() counts the
\* ticket (lines 426-427).
AdhocTicketDone ==
    /\ UNCHANGED <<laborVars, sigVars, fnVars,
                 invoiceVars, combinedVars>>
    /\ apc = "push"
    /\ pushIdx > Len(events)
    /\ apc' = "next"
    /\ created_count' = created_count + 1
    /\ UNCHANGED <<todo, defaults, number, ticketIn, baseNow, rows, current,
                   events, lastCall, created, pushIdx, commentCalls, remoteVars>>

\* run(), line 429: every ticket was visited.
AdhocFinish ==
    /\ UNCHANGED <<laborVars, sigVars, fnVars,
                 invoiceVars, combinedVars>>
    /\ apc = "next"
    /\ todo = <<>>
    /\ apc' = "done"
    /\ UNCHANGED <<todo, defaults, number, ticketIn, baseNow, rows, current,
                   events, lastCall, created, pushIdx, commentCalls,
                   created_count, remoteVars>>

\* The whole run, over CSV files of one to three tickets.
AdhocInit ==
    AdhocInitWith(SUBSET AdhocNumbers \ {{}}, {[kind |-> "empty", t |-> 0]})

AdhocNext ==
    \/ AdhocBuildStart(RunCells, {0})
    \/ AdhocBuildComment(RunCells)
    \/ AdhocBuildFinish
    \/ AdhocCreateTicket
    \/ AdhocPushComment
    \/ AdhocTicketDone
    \/ AdhocFinish

SpecAdhoc == AdhocInit /\ [][AdhocNext]_vars

\* build_ticket_payload alone, on one ticket, over every kind of timestamp.
PayloadInit == AdhocInitWith({{<<9>>}}, DefaultCells)

PayloadNext ==
    \/ AdhocBuildStart(TimeCells, NowTicks)
    \/ AdhocBuildComment(TimeCells)
    \/ AdhocBuildFinish

SpecPayload == PayloadInit /\ [][PayloadNext]_vars

(***************************************************************************)
(* main_ticket_labor.run_ticket_labor.  The steps of the decision          *)
(* procedure a row takes are written to trail; every external call is      *)
(* written to api_calls, with the row it was made for and its success.     *)
(***************************************************************************)
TempDataOutcomes == {"ok", "raise"}
CsvFileOutcomes == {"present", "missing"}
FetchOutcomes == {"ok", "raise"}
CreateOutcomes == {"ok", "noid", "fail", "raise"}
ChargeOutcomes == {"ok", "fail", "raise"}

Entry == sorted_entries[idx]

Step(names) == trail' = [trail EXCEPT ![idx] = @ \o names]

limit_reached_when_passed(limit, attempted) == limit # -1 /\ attempted > limit

\* Line 565: `max_entries is not None and entries_attempted >= max_entries`
limit_reached(limit, attempted) == limit # -1 /\ attempted >= limit

\* The row is over: `continue`, or the end of the loop body, through the
\* finally clause (lines 556-570).  With max_entries reached the run returns.
RowEnds(entry_was_attempted) ==
    /\ entries_attempted' =
           IF entry_was_attempted THEN entries_attempted + 1 ELSE entries_attempted
    /\ IF /\ entry_was_attempted
          /\ limit_reached(max_entries, entries_attempted + 1)
       THEN /\ lpc' = "done"
            /\ idx' = idx
       ELSE /\ idx' = idx + 1
            /\ lpc' = IF idx + 1 > Len(sorted_entries) THEN "done" ELSE "loop"
    /\ ticket_id_int' = 0
    /\ payload' = NoPayload
    /\ entry_timer_signature' = NoSignature
    /\ timer_entry_id' = 0

RowGoesOn(pc) ==
    /\ lpc' = pc
    /\ UNCHANGED <<idx, entries_attempted>>

\* Before run_ticket_labor: a CSV file is in place, nothing is loaded.
LaborInitWith(lengths, limits) ==
    /\ lpc = "setup"
    /\ run_no = 1
    /\ \E n \in lengths : labor_csv \in [1..n -> CsvRows]
    /\ sorted_entries = <<>>
    /\ max_entries \in limits
    /\ idx = 1
    /\ ticket_cache = EmptyMap
    /\ ticket_timer_cache = EmptyMap
    /\ processed_signatures = {}
    /\ entries_attempted = 0
    /\ ticket_id_int = 0
    /\ payload = NoPayload
    /\ entry_timer_signature = NoSignature
    /\ timer_entry_id = 0
    /\ trail = <<>>
    /\ api_calls = <<>>
    /\ prior_ok = TRUE
    /\ remote_timers = [t \in LaborTicketIds |-> {}]
    /\ AdhocIdle
    /\ SigIdle
    /\ FnIdle
    /\ InvoiceIdle
    /\ CombinedIdle

\* Lines 376-382: an exception out of load_or_fetch_temp_data or out of
\* syncro_get_all_ticket_labor_entries_from_csv (file not found, blank
\* cell) is logged and run_ticket_labor returns.
setup_fails_never(temp_data, file, file_rows) ==
    FALSE

setup_fails(temp_data, file, file_rows) ==
    \/ temp_data = "raise"
    \/ file = "missing"
    \/ load_csv_raises(file_rows)

\* run_ticket_labor, lines 375-388: the reference data and the CSV are
\* loaded and the rows are sorted.
LaborSetup ==
    /\ lpc = "setup"
    /\ \E temp_data \in TempDataOutcomes, file \in CsvFileOutcomes :
         IF setup_fails(temp_data, file, labor_csv)
         THEN /\ lpc' = "aborted"
              /\ UNCHANGED <<sorted_entries, trail>>
         ELSE /\ sorted_entries' = _sort_labor_entries(labor_csv)
              /\ trail' = [i \in 1..Len(labor_csv) |-> <<>>]
              /\ lpc' = "loop"
    /\ UNCHANGED <<run_no, max_entries, idx, ticket_cache, ticket_timer_cache,
                   processed_signatures, entries_attempted, ticket_id_int, payload,
                   entry_timer_signature, timer_entry_id, api_calls, prior_ok,
                   remote_timers>>
    /\ UNCHANGED <<adhocVars, remoteVars, sigVars, labor_csv, fnVars,
                 invoiceVars, combinedVars>>

\* Lines 389-406: the next row is taken; a row without ticket number and a
\* row whose signature was seen in this run are skipped.
LaborTakeRow ==
    /\ lpc = "loop"
    /\ IF Entry.ticket_number = <<>>
       THEN /\ Step(<<"PENDING", "SKIPPED_INVALID">>)
            /\ RowEnds(FALSE)
            /\ UNCHANGED processed_signatures
       ELSE IF _make_entry_signature(Entry) \in processed_signatures
       THEN /\ Step(<<"PENDING", "SKIPPED_DUPLICATE">>)
            /\ RowEnds(FALSE)
            /\ UNCHANGED processed_signatures
       ELSE /\ processed_signatures' =
                   processed_signatures \cup {_make_entry_signature(Entry)}
            /\ Step(<<"PENDING">>)
            /\ RowGoesOn("ensure")
            /\ UNCHANGED <<ticket_id_int, payload, entry_timer_signature,
                           timer_entry_id>>
    /\ UNCHANGED <<run_no, sorted_entries, max_entries, ticket_cache,
                   ticket_timer_cache, api_calls, prior_ok, remote_timers>>
    /\ UNCHANGED <<adhocVars, remoteVars, sigVars, labor_csv, fnVars,
                 invoiceVars, combinedVars>>

ticket_cached_when_found(cache, cleaned) ==
    cleaned \in DOMAIN cache /\ cache[cleaned].found

\* _ensure_ticket, line 122: the cleaned number is a key of ticket_cache,
\* whether it holds a ticket or None
ticket_cached(cache, cleaned) == cleaned \in DOMAIN cache

\* Lines 408-446 with _ensure_ticket: the ticket comes from ticket_cache or
\* from the helpdesk (a failed lookup is cached as None), the payload is
\* prepared, the ticket ID is read and the timer signature is built.  An
\* exception out of syncro_prepare_ticket_labor_json ends the run.
LaborEnsureTicket ==
    /\ lpc = "ensure"
    /\ \E outcome \in LookupOutcomes :
         LET cleaned == CleanedNumber(Entry.ticket_number)
             hit == ticket_cached(ticket_cache, cleaned)
             ticket == IF hit THEN ticket_cache[cleaned]
                       ELSE IF outcome = "ok" THEN LaborTicket(cleaned)
                       ELSE NoTicketRef
             prepared == syncro_prepare_ticket_labor_json(Entry, ticket)
         IN  /\ hit => outcome = "ok"
             /\ ticket_cache' = IF hit THEN ticket_cache
                                ELSE Put(ticket_cache, cleaned, ticket)
             /\ api_calls' = IF hit THEN api_calls
                         ELSE Append(api_calls, Call("lookup", idx, 0, outcome = "ok"))
             /\ IF ~ticket.found
                THEN /\ Step(<<"SKIPPED_INVALID">>)
                     /\ RowEnds(FALSE)
                ELSE IF prepare_raises(Entry, ticket)
                THEN /\ Step(<<"TICKET_RESOLVED">>)
                     /\ lpc' = "crashed"
                     /\ UNCHANGED <<idx, entries_attempted, ticket_id_int, payload,
                                    entry_timer_signature, timer_entry_id>>
                ELSE IF ~prepared.ok \/ ticket.id <= 0
                THEN /\ Step(<<"TICKET_RESOLVED", "SKIPPED_INVALID">>)
                     /\ RowEnds(FALSE)
                ELSE /\ Step(<<"TICKET_RESOLVED", "SIGNATURE_BUILT">>)
                     /\ RowGoesOn("fetch")
                     /\ ticket_id_int' = ticket.id
                     /\ payload' = prepared
                     /\ entry_timer_signature' = _make_entry_timer_signature(Entry)
                     /\ UNCHANGED timer_entry_id
    /\ UNCHANGED <<run_no, sorted_entries, max_entries, ticket_timer_cache,
                   processed_signatures, prior_ok, remote_timers>>
    /\ UNCHANGED <<adhocVars, remoteVars, sigVars, labor_csv, fnVars,
                 invoiceVars, combinedVars>>

\* _get_existing_timer_signatures asking the helpdesk every time
timer_fetch_always(cache, ticket_id) == TRUE

\* _get_existing_timer_signatures, lines 328-329: the helpdesk is asked
\* unless the ticket ID is in the cache
timer_fetch_needed(cache, ticket_id) == ticket_id \notin DOMAIN cache

\* _get_existing_timer_signatures keeping what the helpdesk holds although
\* the fetch raised
fetched_signatures_kept(outcome, timers) == remote_signatures(timers)

\* _get_existing_timer_signatures, lines 331-364: the set that is cached
\* after the fetch, empty when the fetch raised
fetched_signatures(outcome, timers) ==
    IF outcome = "ok" THEN remote_signatures(timers) ELSE {}

\* Lines 455-495 with _get_existing_timer_signatures: the signatures of the
\* ticket's timers come from ticket_timer_cache or from the helpdesk, and
\* the row is skipped when its signature is among them.
LaborFetchExisting ==
    /\ lpc = "fetch"
    /\ \E outcome \in FetchOutcomes :
         LET needed == timer_fetch_needed(ticket_timer_cache, ticket_id_int)
             existing_timer_signatures ==
                 IF needed
                 THEN fetched_signatures(outcome, remote_timers[ticket_id_int])
                 ELSE ticket_timer_cache[ticket_id_int]
         IN  /\ ~needed => outcome = "ok"
             /\ ticket_timer_cache' =
                    Put(ticket_timer_cache, ticket_id_int, existing_timer_signatures)
             /\ api_calls' = IF needed
                         THEN Append(api_calls, Call("fetch", idx, ticket_id_int,
                                                 outcome = "ok"))
                         ELSE api_calls
             /\ IF entry_timer_signature \in existing_timer_signatures
                THEN /\ Step(<<"DUPLICATE_CHECKED", "SKIPPED_DUPLICATE">>)
                     /\ RowEnds(TRUE)
                ELSE /\ Step(<<"DUPLICATE_CHECKED">>)
                     /\ RowGoesOn("create")
                     /\ UNCHANGED <<ticket_id_int, payload, entry_timer_signature,
                                    timer_entry_id>>
    /\ UNCHANGED <<run_no, sorted_entries, max_entries, ticket_cache,
                   processed_signatures, prior_ok, remote_timers>>
    /\ UNCHANGED <<adhocVars, remoteVars, sigVars, labor_csv, fnVars,
                 invoiceVars, combinedVars>>

\* Line 540: existing_timer_signatures.add(entry_timer_signature), on the
\* set that the cache holds
cache_after_create(cache, ticket_id, signature) ==
    [cache EXCEPT ![ticket_id] = @ \cup {signature}]

\* Lines 511-512 and 548-555: the row counts as created when the create call
\* returned a truthy response; a call that returned nothing or raised is a
\* failed creation.
create_accepted_any(outcome) ==
    TRUE

create_accepted(outcome) ==
    outcome \in {"ok", "noid"}

\* Lines 512-523: the charge call follows the create call when the response
\* is truthy, the row asks for a charge and the response carries an ID.
charge_follows_any(outcome, should_charge) ==
    should_charge

charge_follows(outcome, should_charge) ==
    outcome = "ok" /\ should_charge

\* Lines 508-516 and 539-555: the timer entry is created.  An accepted
\* entry is charged next when the row asks for it and the response has an
\* ID; otherwise the row is over.  A create call that returns nothing
\* (line 548) and one that raises (line 552) end the row the same way.
LaborCreate ==
    /\ lpc = "create"
    /\ \E outcome \in CreateOutcomes :
         LET accepted == create_accepted(outcome)
         IN  /\ api_calls' = Append(api_calls, Call("create", idx, ticket_id_int,
                                                    outcome \in {"ok", "noid"}))
             /\ remote_timers' =
                    IF accepted
                    THEN [remote_timers EXCEPT ![ticket_id_int] =
                                                   @ \cup {stored_timer(payload)}]
                    ELSE remote_timers
             /\ IF charge_follows(outcome, parse_charge_flag(Entry.charge))
                THEN /\ Step(<<"SUBMITTED">>)
                     /\ RowGoesOn("charge")
                     /\ timer_entry_id' = 1
                     /\ UNCHANGED <<ticket_timer_cache, ticket_id_int, payload,
                                    entry_timer_signature>>
                ELSE IF accepted
                THEN /\ Step(<<"SUBMITTED", "UNCHARGED">>)
                     /\ ticket_timer_cache' =
                            cache_after_create(ticket_timer_cache, ticket_id_int,
                                               entry_timer_signature)
                     /\ RowEnds(TRUE)
                ELSE /\ Step(<<"SUBMITTED", "CREATE_FAILED">>)
                     /\ RowEnds(TRUE)
                     /\ UNCHANGED ticket_timer_cache
    /\ UNCHANGED <<run_no, sorted_entries, max_entries, ticket_cache,
                   processed_signatures, prior_ok>>
    /\ UNCHANGED <<adhocVars, remoteVars, sigVars, labor_csv, fnVars,
                 invoiceVars, combinedVars>>

\* Lines 524-540: the timer entry is charged, and its signature joins the
\* signatures known for the ticket.  A charge call that raises is caught at
\* line 552, past line 540: the signature is not added.
LaborCharge ==
    /\ lpc = "charge"
    /\ \E outcome \in ChargeOutcomes :
         /\ api_calls' = Append(api_calls, Call("charge", idx, ticket_id_int, outcome = "ok"))
         /\ Step(<<IF outcome = "ok" THEN "CHARGED" ELSE "CHARGE_FAILED">>)
         /\ ticket_timer_cache' =
                IF outcome = "raise"
                THEN ticket_timer_cache
                ELSE cache_after_create(ticket_timer_cache, ticket_id_int,
                                        entry_timer_signature)
    /\ RowEnds(TRUE)
    /\ UNCHANGED <<run_no, sorted_entries, max_entries, ticket_cache,
                   processed_signatures, prior_ok, remote_timers>>
    /\ UNCHANGED <<adhocVars, remoteVars, sigVars, labor_csv, fnVars,
                 invoiceVars, combinedVars>>

\* run_ticket_labor is run again on the same CSV: lines 375-387, with new
\* caches, against the helpdesk as the run before left it.
LaborRerun ==
    /\ lpc \in {"done", "crashed", "aborted"}
    /\ run_no < MaxRuns
    /\ run_no' = run_no + 1
    /\ lpc' = "setup"
    /\ sorted_entries' = <<>>
    /\ idx' = 1
    /\ ticket_cache' = EmptyMap
    /\ ticket_timer_cache' = EmptyMap
    /\ processed_signatures' = {}
    /\ entries_attempted' = 0
    /\ trail' = <<>>
    /\ api_calls' = <<>>
    /\ prior_ok' = (prior_ok /\ \A i \in 1..Len(api_calls) : api_calls[i].ok)
    /\ UNCHANGED <<max_entries, ticket_id_int, payload,
                   entry_timer_signature, timer_entry_id, remote_timers>>
    /\ UNCHANGED <<adhocVars, remoteVars, sigVars, labor_csv, fnVars,
                 invoiceVars, combinedVars>>

\* Runs of the labor import over CSV files of one to MaxRows rows.
LaborInit == LaborInitWith(1..MaxRows, {-1})

LaborNext ==
    \/ LaborSetup
    \/ LaborTakeRow
    \/ LaborEnsureTicket
    \/ LaborFetchExisting
    \/ LaborCreate
    \/ LaborCharge
    \/ LaborRerun

SpecLabor == LaborInit /\ [][LaborNext]_vars

\* run_ticket_labor with a run limit: max_entries is 1 or 2.
LimitInit == LaborInitWith(1..MaxRows, {1, 2})

SpecLaborLimit == LimitInit /\ [][LaborNext]_vars

(***************************************************************************)
(* The two signature builders on a labor row and a remote timer record     *)
(* that describe the same event: notes, the display name of a tech, and a  *)
(* minute.  The row and the record each write the event in their own way.  *)
(***************************************************************************)
EventNotes == {Text("n1", FALSE, FALSE), Text("n2", TRUE, FALSE)}

EventTechs == {"jane doe", "bob"}

EventMinutes == {1}

\* The ways a row can write the minute: local wall time, or with an offset
StampsOfMinute(minute) ==
    {Stamp("naive", minute * SecondsPerMinute - ZoneBehindUtc, 0),
     Stamp("aware", minute * SecondsPerMinute + 30, 0),
     Stamp("aware", minute * SecondsPerMinute - ZoneBehindUtc + 59, 0 - ZoneBehindUtc)}

EntriesOfEvent(notes, tech, minute) ==
    {Row(<<1, 0>>, 1, stamp, Duration("30", "number", 300), Text(tech, up, pad),
         [notes EXCEPT !.pad = pad], "no") :
        stamp \in StampsOfMinute(minute), up \in BOOLEAN, pad \in BOOLEAN}

\* The values a record can give the tech with: the display name in some
\* letter case, an object holding it, or the ID the directory has for it
TechValuesOf(tech) ==
    {TextVal(Text(tech, up, FALSE)) : up \in BOOLEAN}
    \cup {DictVal([NoUser EXCEPT ![f] = Text(tech, TRUE, FALSE)]) :
              f \in {"name", "full_name", "display_name"}}

TechIdsOf(tech) ==
    {IdVal(t.id) : t \in {t \in Techs : t.name.s = tech}}

TimersOfEvent(notes, tech, minute) ==
    {[[[NoTimer EXCEPT ![nf] = notes] EXCEPT ![tf.field] = tf.value]
                EXCEPT ![sf] = stamp] :
        nf \in {NotesFields[i] : i \in 1..Len(NotesFields)},
        sf \in {TimeFields[i] : i \in 1..Len(TimeFields)},
        stamp \in StampsOfMinute(minute),
        tf \in {[field |-> f, value |-> v] :
                    f \in {"tech", "user_name", "user"}, v \in TechValuesOf(tech)}
               \cup {[field |-> f, value |-> v] :
                    f \in {"tech", "user_name", "user", "user_id", "userId", "userID"},
                    v \in TechIdsOf(tech)}
               \cup {[field |-> "user", value |-> DictVal([NoUser EXCEPT !.id = v.id])] :
                    v \in TechIdsOf(tech)}}

SigInit ==
    /\ \E notes \in EventNotes, tech \in EventTechs, minute \in EventMinutes :
           /\ sig_entry \in EntriesOfEvent(notes, tech, minute)
           /\ sig_timer \in TimersOfEvent(notes, tech, minute)
    /\ sig_pair = NoPair
    /\ AdhocIdle
    /\ LaborIdle
    /\ FnIdle
    /\ InvoiceIdle
    /\ CombinedIdle

\* Both signatures are built.
SigBuild ==
    /\ ~sig_pair.built
    /\ sig_pair' = [built |-> TRUE,
                    entry |-> _make_entry_timer_signature(sig_entry),
                    timer |-> _make_remote_timer_signature(sig_timer)]
    /\ UNCHANGED <<sig_entry, sig_timer>>
    /\ UNCHANGED <<adhocVars, remoteVars, laborVars, fnVars,
                 invoiceVars, combinedVars>>

SigNext == SigBuild

SpecSig == SigInit /\ [][SigNext]_vars

(***************************************************************************)
(* syncro_utils.get_syncro_customer_contact and the two callers that put   *)
(* its result into a ticket body.  A JSON value is [type, val]; a body is  *)
(* a function from its keys to their values.                               *)
(***************************************************************************)
MaxContacts == 2         \* contact records in the reference data

ContactRecord(customer_id, id, name) ==
    [customer_id |-> customer_id, id |-> id, name |-> name]

\* The match get_syncro_customer_contact returns; found FALSE is None.
NoContact == [found |-> FALSE, id |-> 0, name |-> NoText]

\* Records of temp_data["contacts"]: "Ann Lee" and " Ann " of customer 7,
\* "ann lee" of customer 8, a record without ID (0) and one without name.
ContactRecords ==
    {ContactRecord(7, 11, Text("ann lee", TRUE, FALSE)),
     ContactRecord(7, 12, Text("ann", TRUE, TRUE)),
     ContactRecord(8, 21, Text("ann lee", FALSE, FALSE)),
     ContactRecord(8, 0, Text("bo", TRUE, FALSE)),
     ContactRecord(7, 13, NoText)}

\* Contact names of a CSV: none, blanks, " ann lee ", "Ann", "Bo", "Ann L".
ContactNames ==
    {NoText, Text("", FALSE, TRUE), Text("ann lee", FALSE, TRUE),
     Text("ann", TRUE, FALSE), Text("bo", TRUE, FALSE), Text("ann l", TRUE, FALSE)}

\* Customer IDs a caller passes; 0 stands for None.
CustomerIds == {0, 7, 8, 9}

\* get_syncro_customer_contact without the filter on the customer ID
get_syncro_customer_contact_any(customerid, contact, contacts_data) ==
    LET Usable(c) == c.id # 0 /\ Truthy(c.name)
        usable == SelectSeq(contacts_data, Usable)
        hits == {i \in 1..Len(usable) :
                    _normalize_text_lower(usable[i].name) = _normalize_text_lower(contact)}
    IN  IF hits = {} THEN NoContact
        ELSE LET last == usable[CHOOSE i \in hits : \A j \in hits : j <= i]
             IN  [found |-> TRUE, id |-> last.id, name |-> _normalize_text(last.name)]

\* syncro_utils.get_syncro_customer_contact: the contacts of the customer
\* are put into a dictionary by stripped lower-cased name (a later record
\* replaces an earlier one of the same name) and the stripped lower-cased
\* contact name is looked up in it.
get_syncro_customer_contact(customerid, contact, contacts_data) ==
    LET Mine(c) == c.customer_id = customerid
        Usable(c) == c.id # 0 /\ Truthy(c.name)
        customer_contacts == SelectSeq(contacts_data, Mine)
        usable == SelectSeq(customer_contacts, Usable)
        hits == {i \in 1..Len(usable) :
                    _normalize_text_lower(usable[i].name) = _normalize_text_lower(contact)}
    IN  IF \/ ~Truthy(_normalize_text(contact))
           \/ customerid = 0
           \/ customer_contacts = <<>>
           \/ hits = {}
        THEN NoContact
        ELSE LET last == usable[CHOOSE i \in hits : \A j \in hits : j <= i]
             IN  [found |-> TRUE, id |-> last.id, name |-> _normalize_text(last.name)]

JsonVal(type, val) == [type |-> type, val |-> val]

JsonNull == JsonVal("null", 0)

\* `{key: value for key, value in body.items() if value is not None}`
strip_none(body) ==
    [k \in {key \in DOMAIN body : body[key].type # "null"} |-> body[k]]

\* adhoc_ticket_format.enrich_payload_with_ids, given the customer ID that
\* get_customer_id_by_name found (0 for none): the keys it adds to the
\* payload.  The contact is looked up only under a customer ID, and the
\* match is stored under contact_id as it was returned.
enrich_payload_with_ids(ticket_payload, customer_id, contact_name, contacts_data) ==
    LET contact_id == get_syncro_customer_contact(customer_id, contact_name, contacts_data)
        with_customer == ("customer_id" :> JsonVal("int", customer_id)) @@ ticket_payload
    IN  IF customer_id = 0 THEN ticket_payload
        ELSE IF Truthy(contact_name) /\ contact_id.found
        THEN ("contact_id" :> JsonVal("contact", contact_id)) @@ with_customer
        ELSE with_customer

\* syncro_prepare_ticket_combined_json, lines 1170-1171: the value for
\* the contact_id key
syncro_contact_id(contact_match) ==
    IF contact_match.found THEN JsonVal("int", contact_match.id) ELSE JsonNull

ContactInputs ==
    {[fn |-> "get_syncro_customer_contact", customerid |-> c, contact |-> n,
      contacts_data |-> d] :
        c \in CustomerIds, n \in ContactNames,
        d \in UNION {[1..k -> ContactRecords] : k \in 0..MaxContacts}}

ContactInit ==
    /\ fn_args \in ContactInputs
    /\ fn_result = NotCalled
    /\ AdhocIdle
    /\ LaborIdle
    /\ SigIdle
    /\ InvoiceIdle
    /\ CombinedIdle

\* The contact is resolved and the two callers build their bodies from it.
ContactLookup ==
    /\ fn_args.fn = "get_syncro_customer_contact"
    /\ fn_result = NotCalled
    /\ LET match == get_syncro_customer_contact(fn_args.customerid, fn_args.contact,
                                                fn_args.contacts_data)
       IN  fn_result' =
               [fn |-> "get_syncro_customer_contact",
                match |-> match,
                adhoc_payload |-> enrich_payload_with_ids(<<>>, fn_args.customerid,
                                                          fn_args.contact,
                                                          fn_args.contacts_data),
                combined_json |-> strip_none("contact_id" :> syncro_contact_id(match))]
    /\ UNCHANGED fn_args
    /\ UNCHANGED <<adhocVars, remoteVars, laborVars, sigVars,
                 invoiceVars, combinedVars>>

ContactNext == ContactLookup

SpecContact == ContactInit /\ [][ContactNext]_vars

(***************************************************************************)
(* syncro_utils.syncro_prepare_ticket_combined_json: the body of a ticket  *)
(* of the combined tickets-and-comments CSV.                               *)
(***************************************************************************)
Customers == {[id |-> 7, name |-> Text("acme", TRUE, FALSE)]}

\* get_customer_id_by_name: the ID of the customer whose business name
\* equals the name, both stripped and lower-cased; 0 stands for None.
get_customer_id_by_name(customer_name) ==
    IF \E c \in Customers :
           _normalize_text_lower(c.name) = _normalize_text_lower(customer_name)
    THEN (CHOOSE c \in Customers :
              _normalize_text_lower(c.name) = _normalize_text_lower(customer_name)).id
    ELSE 0

\* get_syncro_priority: the Syncro priority of that name, "2 Normal" for
\* any other text
get_syncro_priority(priority) ==
    LET normalized_priority == _normalize_text_lower(priority).s
    IN  CASE normalized_priority = "urgent" -> Text("0 urgent", TRUE, FALSE)
          [] normalized_priority = "high" -> Text("1 high", TRUE, FALSE)
          [] normalized_priority = "low" -> Text("3 low", TRUE, FALSE)
          [] OTHER -> Text("2 normal", TRUE, FALSE)

\* The issue types of the reference data.
IssueTypes == {Text("hardware", TRUE, FALSE)}

\* get_syncro_issue_type: the issue type of the reference data that equals
\* the name, both stripped and lower-cased, else the default "Other"
get_syncro_issue_type(issue_type) ==
    IF \E t \in IssueTypes : _normalize_text_lower(t) = _normalize_text_lower(issue_type)
    THEN CHOOSE t \in IssueTypes : _normalize_text_lower(t) = _normalize_text_lower(issue_type)
    ELSE Text("other", TRUE, FALSE)

\* build_syncro_initial_issue: one comment; its tech is the contact, or the
\* text "None"
build_syncro_initial_issue(initial_issue, syncroContact, created_at) ==
    <<[subject |-> Text("initial issue", TRUE, FALSE),
       body |-> initial_issue,
       tech |-> IF Truthy(syncroContact) THEN syncroContact
                ELSE Text("none", TRUE, FALSE),
       created_at |-> created_at]>>

\* The body before the None values are removed (lines 1178-1189).
ticket_json_raw(ticket, contacts_data) ==
    LET customer_id == get_customer_id_by_name(ticket.customer)
        syncro_ticket_number == clean_syncro_ticket_number(ticket.ticket_number)
        syncro_created_date == Localized(ticket.created)
        contact_match == get_syncro_customer_contact(customer_id, ticket.end_user,
                                                     contacts_data)
        contact_display_name ==
            IF contact_match.found THEN contact_match.name
            ELSE OrText(<<ticket.tech, ticket.end_user>>)
        syncro_tech == get_syncro_tech(ticket.tech)
    IN  [customer_id |-> IF customer_id = 0 THEN JsonNull
                         ELSE JsonVal("int", customer_id),
         number |-> JsonVal("str", syncro_ticket_number),
         subject |-> JsonVal("text", ticket.subject),
         user_id |-> IF syncro_tech = 0 THEN JsonNull ELSE JsonVal("int", syncro_tech),
         comments_attributes |->
             JsonVal("list", build_syncro_initial_issue(ticket.description,
                                                        contact_display_name,
                                                        syncro_created_date)),
         status |-> JsonVal("text", ticket.status),
         problem_type |-> JsonVal("text", get_syncro_issue_type(ticket.issue_type)),
         created_at |-> JsonVal("stamp", syncro_created_date),
         contact_id |-> syncro_contact_id(contact_match),
         priority |-> JsonVal("text", get_syncro_priority(ticket.priority))]

\* syncro_prepare_ticket_combined_json: the body handed to
\* syncro_create_ticket
syncro_prepare_ticket_combined_json(ticket, contacts_data) ==
    strip_none(ticket_json_raw(ticket, contacts_data))

\* The contacts of the reference data, for the combined CSV.
CombinedContacts ==
    <<ContactRecord(7, 11, Text("ann lee", TRUE, FALSE)),
      ContactRecord(8, 21, Text("ann lee", FALSE, FALSE))>>

\* Rows of the combined CSV, every cell non-blank as load_csv requires:
\* ticket numbers "10", "T10" and "T".
CombinedTickets ==
    {[fn |-> "syncro_prepare_ticket_combined_json",
      customer |-> c, ticket_number |-> n, subject |-> Text("s", FALSE, FALSE),
      tech |-> t, description |-> Text("d", FALSE, FALSE),
      status |-> Text("new", TRUE, FALSE), issue_type |-> i,
      created |-> Stamp("naive", 0, 0), end_user |-> e, priority |-> q] :
        c \in {Text("acme", FALSE, TRUE), Text("nobody", FALSE, FALSE)},
        n \in {<<1, 0>>, <<36, 1, 0>>, <<36>>},
        t \in {JaneDoe, Bob},
        i \in {Text("hardware", FALSE, FALSE), Text("odd", FALSE, FALSE)},
        e \in {Text("ann lee", FALSE, TRUE), Text("bo", TRUE, FALSE)},
        q \in {Text("high", TRUE, FALSE), Text("odd", FALSE, FALSE)}}

TicketBodyInit ==
    /\ fn_args \in CombinedTickets
    /\ fn_result = NotCalled
    /\ AdhocIdle
    /\ LaborIdle
    /\ SigIdle
    /\ InvoiceIdle
    /\ CombinedIdle

\* The body of the ticket is prepared.
TicketBodyPrepare ==
    /\ fn_args.fn = "syncro_prepare_ticket_combined_json"
    /\ fn_result = NotCalled
    /\ fn_result' = [fn |-> "syncro_prepare_ticket_combined_json",
                     ticket_json |->
                         syncro_prepare_ticket_combined_json(fn_args, CombinedContacts)]
    /\ UNCHANGED fn_args
    /\ UNCHANGED <<adhocVars, remoteVars, laborVars, sigVars,
                 invoiceVars, combinedVars>>

TicketBodyNext == TicketBodyPrepare

SpecTicketBody == TicketBodyInit /\ [][TicketBodyNext]_vars

(***************************************************************************)
(* syncro_utils.parse_comment_created on its own.  The argument is a       *)
(* datetime or a string; a string is a Stamp by what it writes: a naive or *)
(* an aware timestamp, nothing ("none": None or ""), text that is no       *)
(* timestamp ("bad"), or digits that write a number beyond the range of a  *)
(* C integer ("huge", such as "99999999999999999999").                     *)
(***************************************************************************)
MaxHalfMinutes == 7      \* timestamps of the parser's inputs, in half minutes

ParseWalls == {m * 30 : m \in 0..MaxHalfMinutes}

\* Lines 1219-1232: dateutil's parser.parse raises OverflowError on a number
\* beyond the range of a C integer; the handler names ValueError and
\* TypeError only.
parse_comment_created_raises(comment_created) ==
    comment_created.kind = "huge"

ParseInputs ==
    {[fn |-> "parse_comment_created", is_datetime |-> d, comment_created |-> x] :
        d \in {TRUE},
        x \in {Stamp("naive", w, 0) : w \in ParseWalls}
               \cup {Stamp("aware", w, o) : w \in ParseWalls, o \in {0, 0 - ZoneBehindUtc}}}
    \cup
    {[fn |-> "parse_comment_created", is_datetime |-> d, comment_created |-> x] :
        d \in {FALSE},
        x \in {Stamp("naive", w, 0) : w \in ParseWalls}
               \cup {Stamp("aware", w, o) : w \in ParseWalls, o \in {0, 0 - ZoneBehindUtc}}
               \cup {NoStamp, Stamp("bad", 1, 0), Stamp("huge", 0, 0)}}

ParseInit ==
    /\ fn_args \in ParseInputs
    /\ fn_result = NotCalled
    /\ AdhocIdle
    /\ LaborIdle
    /\ SigIdle
    /\ InvoiceIdle
    /\ CombinedIdle

\* parse_comment_created is called: it returns, or an exception leaves it.
ParseCall ==
    /\ fn_args.fn = "parse_comment_created"
    /\ fn_result = NotCalled
    /\ LET raised == /\ ~fn_args.is_datetime
                      /\ parse_comment_created_raises(fn_args.comment_created)
       IN  fn_result' = [fn |-> "parse_comment_created",
                         raised |-> raised,
                         value |-> IF raised THEN NoStamp
                                   ELSE parse_comment_created(fn_args.comment_created)]
    /\ UNCHANGED fn_args
    /\ UNCHANGED <<adhocVars, remoteVars, laborVars, sigVars,
                 invoiceVars, combinedVars>>

ParseNext == ParseCall

SpecParse == ParseInit /\ [][ParseNext]_vars

(***************************************************************************)
(* _normalize_timestamp on its own, for two timestamp strings.             *)
(***************************************************************************)
\* Timestamp strings: without an offset, with the offset of UTC (at UTC
\* times that meet the local ones) and with the local offset; text that is
\* no timestamp, written with and without blanks around it (off = 1), a
\* string of digits beyond the range of a C integer, and nothing.
TimestampStrings ==
    {Stamp("naive", w, 0) : w \in ParseWalls}
        \cup {Stamp("aware", w + ZoneBehindUtc, 0) : w \in ParseWalls}
        \cup {Stamp("aware", w, 0 - ZoneBehindUtc) : w \in ParseWalls}
        \cup {Stamp("bad", 1, 0), Stamp("bad", 1, 1), Stamp("huge", 0, 0),
              NoStamp}

TimestampInit ==
    /\ fn_args \in {[fn |-> "_normalize_timestamp", a |-> x, b |-> y] :
                        x \in TimestampStrings, y \in TimestampStrings}
    /\ fn_result = NotCalled
    /\ AdhocIdle
    /\ LaborIdle
    /\ SigIdle
    /\ InvoiceIdle
    /\ CombinedIdle

\* _normalize_timestamp is called on each of the two strings.  Line 185
\* calls parse_comment_created outside any try block: an exception of the
\* parser leaves _normalize_timestamp.
TimestampCall ==
    /\ fn_args.fn = "_normalize_timestamp"
    /\ fn_result = NotCalled
    /\ fn_result' = [fn |-> "_normalize_timestamp",
                     raised |-> \/ parse_comment_created_raises(fn_args.a)
                                \/ parse_comment_created_raises(fn_args.b),
                     a |-> _normalize_timestamp(fn_args.a),
                     b |-> _normalize_timestamp(fn_args.b)]
    /\ UNCHANGED fn_args
    /\ UNCHANGED <<adhocVars, remoteVars, laborVars, sigVars,
                 invoiceVars, combinedVars>>

TimestampNext == TimestampCall

SpecTimestamp == TimestampInit /\ [][TimestampNext]_vars

(***************************************************************************)
(* _make_remote_timer_signature on its own, for timer records that set     *)
(* several fields of the same kind.                                        *)
(***************************************************************************)
\* Timer records: notes and body; tech as a name, as blanks or as an object
\* with an empty name; user_name; user_id as an ID of the directory or an
\* unknown one; start_at and created_at.
RemoteTimerRecords ==
    {[NoTimer EXCEPT !.notes = n, !.body = b, !.tech = t, !.user_name = un,
                     !.user_id = uid, !.start_at = sa, !.created_at = ca] :
        n \in {NoText, Text("n1", FALSE, FALSE), Text("", FALSE, TRUE)},
        b \in {NoText, Text("n2", FALSE, FALSE)},
        t \in {NoneVal, TextVal(Text("bob", TRUE, FALSE)),
               TextVal(Text("", FALSE, TRUE)), DictVal(NoUser)},
        un \in {NoneVal, TextVal(Text("carol", TRUE, FALSE))},
        uid \in {NoneVal, IdVal(42), IdVal(7)},
        sa \in {NoStamp, Stamp("naive", 0, 0)},
        ca \in {NoStamp, Stamp("naive", SecondsPerMinute, 0)}}

RemoteSigInit ==
    /\ fn_args \in {[fn |-> "_make_remote_timer_signature", timer |-> x] :
                        x \in RemoteTimerRecords}
    /\ fn_result = NotCalled
    /\ AdhocIdle
    /\ LaborIdle
    /\ SigIdle
    /\ InvoiceIdle
    /\ CombinedIdle

\* _make_remote_timer_signature is called on the record.
RemoteSigCall ==
    /\ fn_args.fn = "_make_remote_timer_signature"
    /\ fn_result = NotCalled
    /\ fn_result' = [fn |-> "_make_remote_timer_signature",
                     value |-> _make_remote_timer_signature(fn_args.timer)]
    /\ UNCHANGED fn_args
    /\ UNCHANGED <<adhocVars, remoteVars, laborVars, sigVars,
                 invoiceVars, combinedVars>>

RemoteSigNext == RemoteSigCall

SpecRemoteSig == RemoteSigInit /\ [][RemoteSigNext]_vars

(***************************************************************************)
(* main_invoice_import: the invoices of the invoice CSV.  An invoice       *)
(* number is text, written as its character codes: 32 is a space and 36 a  *)
(* character that is neither a digit nor a space.                          *)
(***************************************************************************)
MaxInvoiceRows == 3

InvoiceRow(invoice_number, customer) ==
    [invoice_number |-> invoice_number, customer |-> customer]

\* The rows an invoice CSV is made of: invoice "12" for two customers, the
\* same number written "INV12" and " 12", invoice "7" and a row without a
\* number.
InvoiceCsvRows ==
    {InvoiceRow(<<1, 2>>, "a"), InvoiceRow(<<1, 2>>, "b"),
     InvoiceRow(<<36, 1, 2>>, "a"), InvoiceRow(<<32, 1, 2>>, "a"),
     InvoiceRow(<<7>>, "a"), InvoiceRow(<<>>, "a")}

\* str.strip() of line 28
RECURSIVE strip(_)
strip(text) ==
    IF text = <<>> THEN text
    ELSE IF Head(text) = 32 THEN strip(Tail(text))
    ELSE IF text[Len(text)] = 32 THEN strip(SubSeq(text, 1, Len(text) - 1))
    ELSE text

\* syncro_utils.sanitize_invoice_number: the digits of the number; <<>> is
\* None.
sanitize_invoice_number(value) == SelectSeq(value, IsDigit)

\* _normalize_invoice_number
_normalize_invoice_number(value) == sanitize_invoice_number(value)

\* grouped.setdefault(invoice_number, []).append(row) of _group_invoice_rows
setdefault_append(grouped, row) ==
    LET invoice_number == strip(row.invoice_number)
    IN  IF \E i \in 1..Len(grouped) : grouped[i].invoice_number = invoice_number
        THEN [i \in 1..Len(grouped) |->
                IF grouped[i].invoice_number = invoice_number
                THEN [grouped[i] EXCEPT !.rows = Append(@, row)]
                ELSE grouped[i]]
        ELSE Append(grouped, [invoice_number |-> invoice_number, rows |-> <<row>>])

\* _group_invoice_rows: the groups in the order their numbers first appear
RECURSIVE _group_invoice_rows(_)
_group_invoice_rows(csv_rows) ==
    IF csv_rows = <<>> THEN <<>>
    ELSE setdefault_append(
            _group_invoice_rows(SubSeq(csv_rows, 1, Len(csv_rows) - 1)),
            csv_rows[Len(csv_rows)])

\* grouped_rows of run_invoice_import (line 54)
grouped_rows == _group_invoice_rows(invoice_rows)

\* customer_names of lines 86-90
customer_names(group_rows) ==
    {group_rows[i].customer : i \in {j \in 1..Len(group_rows) : group_rows[j].customer # ""}}

\* existing_invoice_numbers of lines 57-64
existing_numbers_of(existing_invoices) ==
    {_normalize_invoice_number(x) : x \in existing_invoices} \ {<<>>}

is_existing_invoice_never(normalized_invoice_number, existing) == FALSE

\* The test of line 78
is_existing_invoice(normalized_invoice_number, existing) ==
    normalized_invoice_number # <<>> /\ normalized_invoice_number \in existing

\* Lines 121-127: the number of the created invoice, or else the number of
\* the group, joins the known numbers.
numbers_after_create(existing, created_number, normalized_invoice_number) ==
    IF created_number # <<>> THEN existing \cup {created_number}
    ELSE IF normalized_invoice_number # <<>>
         THEN existing \cup {normalized_invoice_number}
         ELSE existing

\* syncro_create_invoice: a response that names the number of the invoice, a
\* response that does not, no response, or an exception.
InvoiceCreateOutcomes == {"number", "nonumber", "none", "raise"}

\* The number the helpdesk gives an invoice that is created without one.
AutoInvoiceNumber == <<9>>

InvoiceInit ==
    /\ ipc = "setup"
    /\ \E n \in 0..MaxInvoiceRows : invoice_rows \in [1..n -> InvoiceCsvRows]
    /\ group_idx = 1
    /\ existing_invoice_numbers = {}
    /\ imported = 0
    /\ skipped_duplicates = 0
    /\ failed = 0
    /\ invoice_calls = <<>>
    /\ remote_invoices \in {{}, {<<1, 2>>}}
    /\ AdhocIdle
    /\ LaborIdle
    /\ SigIdle
    /\ FnIdle
    /\ CombinedIdle

\* run_invoice_import, lines 38-65: the reference data and the CSV are
\* loaded, the run ending when either fails or the CSV has no rows; the
\* numbers of the invoices the helpdesk holds are collected.
InvoiceSetup ==
    /\ ipc = "setup"
    /\ \E temp_data \in TempDataOutcomes, file \in CsvFileOutcomes :
         IF temp_data = "raise" \/ file = "missing" \/ invoice_rows = <<>>
         THEN /\ ipc' = "aborted"
              /\ UNCHANGED existing_invoice_numbers
         ELSE /\ ipc' = "loop"
              /\ existing_invoice_numbers' = existing_numbers_of(remote_invoices)
    /\ UNCHANGED <<invoice_rows, group_idx, imported, skipped_duplicates, failed,
                   invoice_calls, remote_invoices>>
    /\ UNCHANGED <<adhocVars, remoteVars, laborVars, sigVars, fnVars, combinedVars>>

\* run_invoice_import, lines 73-127: one group of rows.  It is skipped as a
\* duplicate, failed for its customers or its payload, or syncro_create_invoice
\* is called and the group is counted as failed or imported.
InvoiceGroup ==
    /\ ipc = "loop"
    /\ group_idx <= Len(grouped_rows)
    /\ \E prepared \in BOOLEAN, outcome \in InvoiceCreateOutcomes :
         LET group_rows == grouped_rows[group_idx].rows
             normalized_invoice_number ==
                 _normalize_invoice_number(group_rows[1].invoice_number)
             invoice_number == IF normalized_invoice_number # <<>>
                               THEN normalized_invoice_number
                               ELSE AutoInvoiceNumber
             created_number == IF outcome = "number" THEN invoice_number ELSE <<>>
         IN  IF is_existing_invoice(normalized_invoice_number,
                                    existing_invoice_numbers)
             THEN /\ skipped_duplicates' = skipped_duplicates + 1
                  /\ UNCHANGED <<imported, failed, invoice_calls,
                                 existing_invoice_numbers>>
             ELSE IF Cardinality(customer_names(group_rows)) > 1 \/ ~prepared
             THEN /\ failed' = failed + 1
                  /\ UNCHANGED <<imported, skipped_duplicates, invoice_calls,
                                 existing_invoice_numbers>>
             ELSE IF outcome \in {"none", "raise"}
             THEN /\ failed' = failed + 1
                  /\ invoice_calls' =
                        Append(invoice_calls,
                               [group |-> group_idx, ok |-> FALSE,
                                number |-> normalized_invoice_number])
                  /\ UNCHANGED <<imported, skipped_duplicates,
                                 existing_invoice_numbers>>
             ELSE /\ imported' = imported + 1
                  /\ invoice_calls' =
                        Append(invoice_calls,
                               [group |-> group_idx, ok |-> TRUE,
                                number |-> normalized_invoice_number])
                  /\ existing_invoice_numbers' =
                        numbers_after_create(existing_invoice_numbers,
                                             created_number,
                                             normalized_invoice_number)
                  /\ UNCHANGED <<skipped_duplicates, failed>>
    /\ group_idx' = group_idx + 1
    /\ UNCHANGED <<ipc, invoice_rows, remote_invoices>>
    /\ UNCHANGED <<adhocVars, remoteVars, laborVars, sigVars, fnVars, combinedVars>>

\* The report of lines 129-134
run_invoice_import_report ==
    [created |-> imported, skipped_duplicates |-> skipped_duplicates,
     failed |-> failed]

\* run_invoice_import, lines 129-135: the groups are through and the counts
\* are logged.
InvoiceFinish ==
    /\ ipc = "loop"
    /\ group_idx > Len(grouped_rows)
    /\ ipc' = "done"
    /\ UNCHANGED <<invoice_rows, group_idx, existing_invoice_numbers, imported,
                   skipped_duplicates, failed, invoice_calls, remote_invoices>>
    /\ UNCHANGED <<adhocVars, remoteVars, laborVars, sigVars, fnVars, combinedVars>>

InvoiceNext ==
    \/ InvoiceSetup
    \/ InvoiceGroup
    \/ InvoiceFinish

SpecInvoice == InvoiceInit /\ [][InvoiceNext]_vars

(***************************************************************************)
(* main_tickets_comments_combined.main: the combined tickets-and-comments  *)
(* import.  The rows of the CSV are grouped by the ticket number cell as   *)
(* written; the first row of a group becomes the ticket, the later rows    *)
(* become comments.  A row is carried as the body it contributes.          *)
(***************************************************************************)
\* group_comments_by_ticket_number and order_ticket_rows_by_date: a ticket
\* number as written and its rows in timestamp order.  Rows without a
\* usable timestamp are dropped, so a ticket may be left with no row.
MaxGroups == 2

CombinedKeys == {<<1, 0>>, <<36, 1, 0>>, <<7>>, <<36>>}

CombinedRowBodies == {<<>>, <<1>>, <<1, 2>>, <<1, 1>>}

CombinedGroups == [key : CombinedKeys, bodies : CombinedRowBodies]

\* The dictionaries order_ticket_rows_by_date can return: at most MaxGroups
\* tickets, no ticket number twice.
OrderedTickets ==
    {t \in UNION {[1..n -> CombinedGroups] : n \in 1..MaxGroups} :
        \A i, j \in DOMAIN t : i # j => t[i].key # t[j].key}

\* syncro_create_ticket, lines 86-87: a payload without a number gets the
\* next available number of the helpdesk, one no ticket has yet.
NextAvailableNumber == <<9>>

\* The ticket numbers the helpdesk may hold when the import starts.
CombinedRemoteNumbers == {<<1, 0>>, <<7>>}

\* main, line 29: the ticket of the CSV is passed over when the lookup by
\* its number returned a ticket.
check_for_existing_tickets(ticket_number, tickets) == ticket_number \in tickets

create_request_issued_unchecked(ticket_number, lookup, tickets) ==
    ticket_number = <<>> \/ lookup = "ok"

\* syncro_create_ticket, lines 84-97: whether the function goes on to the
\* POST.  A payload without a number is not looked up; a number that is
\* looked up must be answered with no ticket.
create_request_issued(ticket_number, lookup, tickets) ==
    \/ ticket_number = <<>>
    \/ /\ lookup = "ok"
       /\ ticket_number \notin tickets

\* syncro_create_comment up to the POST: whether the comment is POSTed.
comment_request_issued(comment, num, lookup, tickets, bodies) ==
    comment_posted(comment, num, lookup, "ok", tickets, bodies)

CombinedCall(op, key, num) == [op |-> op, key |-> key, number |-> num]

CombinedInit ==
    /\ cpc = "ticket"
    /\ tickets_in_order \in OrderedTickets
    /\ ticket_index = 1
    /\ row_index = 0
    /\ combined_calls = <<>>
    /\ remoteTickets \in SUBSET CombinedRemoteNumbers
    /\ ticketBodies = {}
    /\ apc = "done" /\ todo = <<>> /\ defaults = [kind |-> "empty", t |-> 0]
    /\ number = <<>> /\ ticketIn = NoTicket /\ baseNow = 0 /\ rows = <<>>
    /\ current = NoDatetime /\ events = <<>> /\ lastCall = NoCall
    /\ created = FALSE /\ pushIdx = 0 /\ commentCalls = <<>> /\ created_count = 0
    /\ LaborIdle /\ SigIdle /\ FnIdle /\ InvoiceIdle

\* main, lines 23-35: the next ticket of the CSV is looked up by its number
\* as written.  A lookup that raises ends main; a ticket that exists is
\* passed over with all its rows.
CombinedTakeTicket ==
    /\ cpc = "ticket"
    /\ ticket_index <= Len(tickets_in_order)
    /\ LET ticket_number == tickets_in_order[ticket_index].key
       IN  \E lookup \in LookupOutcomes :
             IF lookup = "raise"
             THEN /\ cpc' = "crashed"
                  /\ UNCHANGED <<ticket_index, combined_calls>>
             ELSE IF check_for_existing_tickets(ticket_number, remoteTickets)
             THEN /\ cpc' = "ticket"
                  /\ ticket_index' = ticket_index + 1
                  /\ combined_calls' = Append(combined_calls,
                         CombinedCall("exists", ticket_number, ticket_number))
             ELSE /\ cpc' = "rows"
                  /\ combined_calls' = Append(combined_calls,
                         CombinedCall("absent", ticket_number, ticket_number))
                  /\ UNCHANGED ticket_index
    /\ row_index' = 0
    /\ ticketBodies' = {}
    /\ UNCHANGED <<tickets_in_order, remoteTickets>>
    /\ UNCHANGED <<adhocVars, laborVars, sigVars, fnVars, invoiceVars>>

\* main, lines 39-42, with syncro_create_ticket: the first row of the ticket
\* is sent as a ticket whose number is the digits of the ticket number.  On
\* a created ticket syncro_create_comment is called for the initial issue
\* (line 117), under the number of the response.
CombinedCreateTicket ==
    /\ cpc = "rows"
    /\ row_index = 0
    /\ row_index < Len(tickets_in_order[ticket_index].bodies)
    /\ LET key == tickets_in_order[ticket_index].key
           ticket_number == clean_syncro_ticket_number(key)
           initial_issue == [body |-> tickets_in_order[ticket_index].bodies[1]]
       IN  \E lookup \in LookupOutcomes, post \in PostOutcomes, stored \in BOOLEAN,
              lookup2 \in LookupOutcomes, post2 \in PostOutcomes :
             IF create_request_issued(ticket_number, lookup, remoteTickets)
             THEN LET request == CombinedCall("create_ticket", key, ticket_number)
                      created_number == IF ticket_number = <<>>
                                        THEN NextAvailableNumber ELSE ticket_number
                      tickets1 == remoteTickets \cup {created_number}
                      bodies1 == IF stored THEN {initial_issue.body} ELSE {}
                  IN  IF post = "ok"
                      THEN /\ remoteTickets' = tickets1
                           /\ combined_calls' =
                                 IF comment_request_issued(initial_issue,
                                        created_number, lookup2, tickets1, bodies1)
                                 THEN combined_calls \o
                                      <<request,
                                        CombinedCall("create_comment", key,
                                                     created_number)>>
                                 ELSE Append(combined_calls, request)
                           /\ ticketBodies' =
                                 IF comment_posted(initial_issue, created_number,
                                                   lookup2, post2, tickets1, bodies1)
                                 THEN bodies1 \cup {initial_issue.body}
                                 ELSE bodies1
                      ELSE /\ stored /\ lookup2 = "ok" /\ post2 = "ok"
                           /\ combined_calls' = Append(combined_calls, request)
                           /\ UNCHANGED remoteVars
             ELSE /\ post = "ok" /\ stored /\ lookup2 = "ok" /\ post2 = "ok"
                  /\ UNCHANGED <<combined_calls, remoteVars>>
    /\ row_index' = row_index + 1
    /\ UNCHANGED <<cpc, tickets_in_order, ticket_index>>
    /\ UNCHANGED <<adhocVars, laborVars, sigVars, fnVars, invoiceVars>>

\* main, lines 43-51, with syncro_create_comment: a later row of the ticket
\* is sent as a comment under the ticket number as written, whatever became
\* of the ticket.
CombinedCreateComment ==
    /\ cpc = "rows"
    /\ row_index > 0
    /\ row_index < Len(tickets_in_order[ticket_index].bodies)
    /\ LET key == tickets_in_order[ticket_index].key
           comment == [body |-> tickets_in_order[ticket_index].bodies[row_index + 1]]
       IN  \E lookup \in LookupOutcomes, post \in PostOutcomes :
             /\ combined_calls' =
                   IF comment_request_issued(comment, key, lookup, remoteTickets,
                                             ticketBodies)
                   THEN Append(combined_calls,
                               CombinedCall("create_comment", key, key))
                   ELSE combined_calls
             /\ ticketBodies' =
                   IF comment_posted(comment, key, lookup, post, remoteTickets,
                                     ticketBodies)
                   THEN ticketBodies \cup {comment.body}
                   ELSE ticketBodies
    /\ row_index' = row_index + 1
    /\ UNCHANGED <<cpc, tickets_in_order, ticket_index, remoteTickets>>
    /\ UNCHANGED <<adhocVars, laborVars, sigVars, fnVars, invoiceVars>>

\* main, line 53: the rows of the ticket are used up.
CombinedTicketDone ==
    /\ cpc = "rows"
    /\ row_index = Len(tickets_in_order[ticket_index].bodies)
    /\ cpc' = "ticket"
    /\ ticket_index' = ticket_index + 1
    /\ UNCHANGED <<tickets_in_order, row_index, combined_calls, remoteVars>>
    /\ UNCHANGED <<adhocVars, laborVars, sigVars, fnVars, invoiceVars>>

\* main returns when the outer loop is used up.
CombinedFinish ==
    /\ cpc = "ticket"
    /\ ticket_index > Len(tickets_in_order)
    /\ cpc' = "done"
    /\ UNCHANGED <<tickets_in_order, ticket_index, row_index, combined_calls,
                   remoteVars>>
    /\ UNCHANGED <<adhocVars, laborVars, sigVars, fnVars, invoiceVars>>

CombinedNext ==
    \/ CombinedTakeTicket
    \/ CombinedCreateTicket
    \/ CombinedCreateComment
    \/ CombinedTicketDone
    \/ CombinedFinish

SpecCombined == CombinedInit /\ [][CombinedNext]_vars

(***************************************************************************)
(* Properties of the ad-hoc importer.                                     *)
(***************************************************************************)
PayloadBuilt == apc \in {"build", "create"}

\* C1: the instants build_ticket_payload gives the Description, the Change
\* Plan and the additional comments, in that order, are strictly increasing.
\* The instants are the created_at values of the comment payloads.
C1_InstantsStrictlyIncrease ==
    PayloadBuilt =>
        \A i \in 1..(Len(events) - 1) :
            events[i].created_at < events[i + 1].created_at

\* The datetimes the fold passes to build_comment_payload are strictly
\* increasing; the order is lost only when they are rendered.
FoldDatetimesIncrease ==
    PayloadBuilt =>
        \A i \in 1..(Len(events) - 1) : events[i].at < events[i + 1].at

\* C2: ensure_future(previous, candidate) is exactly previous + 1 second when
\* the candidate is None or not after previous, and the candidate itself when
\* it is after previous.
C2_EnsureFutureExact ==
    lastCall # NoCall =>
        /\ (lastCall.candidate < 0 \/ lastCall.candidate <= lastCall.previous)
              => lastCall.result = lastCall.previous + TicksPerSecond
        /\ (lastCall.candidate >= 0 /\ lastCall.candidate > lastCall.previous)
              => lastCall.result = lastCall.candidate

\* A comment whose timestamp equals current_datetime went through
\* ensure_future.
C2_Witness ==
    /\ Len(rows) >= 1
    /\ lastCall.candidate >= 0
    /\ lastCall.candidate = lastCall.previous

\* The created_at text build_ticket_payload starts from: the ticket's own, or
\* the operator's default when the ticket has none.
CreatedRawOf(ticket) ==
    IF ticket.created_at.kind = "empty" THEN defaults ELSE ticket.created_at

\* C3: the sequence has the fixed shape: Description at the base instant (the
\* parsed creation time, or now when it is absent or unparseable), Change Plan
\* exactly one second later with the body "none" when the CSV has no change
\* plan, then the comments of the CSV in row order; a single comment with an
\* unparseable timestamp is two seconds after the base.
C3_FixedShape ==
    PayloadBuilt =>
        /\ Len(events) = Len(rows) + 2
        /\ events[1].subject.name = "Description"
        /\ events[1].at = IF CreatedRawOf(ticketIn).kind = "naive"
                          THEN CreatedRawOf(ticketIn).t ELSE baseNow
        /\ events[2].subject.name = "Change Plan"
        /\ events[2].at = events[1].at + TicksPerSecond
        /\ events[2].created_at = events[1].created_at + 1
        /\ ticketIn.change_plan = "" => events[2].body = "none"
        /\ ticketIn.change_plan # "" => events[2].body = ticketIn.change_plan
        /\ \A k \in 1..Len(rows) : events[k + 2].body = rows[k].body
        /\ (Len(rows) = 1 /\ ~rows[1].parsed)
              => /\ events[3].at = events[1].at + 2 * TicksPerSecond
                 /\ events[3].created_at = events[1].created_at + 2

\* A ticket without created_at and change plan, with one comment whose
\* timestamp does not parse, was built.
C3_Witness ==
    /\ apc = "create"
    /\ CreatedRawOf(ticketIn).kind # "naive"
    /\ ticketIn.change_plan = ""
    /\ Len(rows) = 1
    /\ ~rows[1].parsed

\* C4: for a ticket whose creation succeeded, syncro_create_comment is called
\* once for each entry of the sequence, in list order: while the comments are
\* pushed the calls made are the entries before the next one, and afterwards
\* they are the whole sequence.
C4_OneCallPerEntryInOrder ==
    created =>
        /\ apc = "push" => commentCalls = SubSeq(events, 1, pushIdx - 1)
        /\ apc \in {"next", "done"} => commentCalls = events

\* A created ticket with two additional comments was pushed completely.
C4_Witness ==
    /\ apc = "next"
    /\ created
    /\ Len(events) = 4
    /\ commentCalls = events

(***************************************************************************)
(* Properties of the labor import.                                         *)
(***************************************************************************)
Rows == 1..Len(sorted_entries)

Steps(i) == {trail[i][k] : k \in 1..Len(trail[i])}

CallsOf(op) == {k \in 1..Len(api_calls) : api_calls[k].op = op}

NoCallFailed == \A k \in 1..Len(api_calls) : api_calls[k].ok

\* The run is through with row i.
RowOver(i) == i < idx \/ (i = idx /\ lpc \in {"done", "crashed"})

TerminalOutcomes == {"SKIPPED_INVALID", "SKIPPED_DUPLICATE", "SUBMITTED"}

\* C5: when run_ticket_labor is run again on the same CSV, against the
\* helpdesk as the first run left it and with no external call failing in
\* either run, the second run makes no create call.
C5_SecondRunCreatesNothing ==
    (run_no >= 2 /\ prior_ok /\ NoCallFailed) => CallsOf("create") = {}

\* The same for CSV files whose techs are all in the technician directory.
SecondRunCreatesNothingForKnownTechs ==
    (/\ run_no >= 2
     /\ prior_ok
     /\ NoCallFailed
     /\ \A i \in Rows : get_syncro_tech(sorted_entries[i].tech) # 0)
        => CallsOf("create") = {}

\* C6: a labor row and a remote timer record that describe the same event
\* give equal signatures, whichever field names the record uses.
C6_SignatureSymmetry ==
    sig_pair.built => sig_pair.entry = sig_pair.timer

\* The record names the tech by user_id alone, the row by a name in lower
\* case, and both signatures have the tech "jane doe".
C6_Witness ==
    /\ sig_pair.built
    /\ sig_timer.user_id.kind = "id"
    /\ sig_timer.tech.kind = "none"
    /\ sig_timer.user_name.kind = "none"
    /\ sig_timer.user.kind = "none"
    /\ ~sig_entry.tech.up
    /\ sig_pair.entry.tech = Text("jane doe", FALSE, FALSE)
    /\ sig_pair.timer.tech = Text("jane doe", FALSE, FALSE)

\* Two rows have the same coarse signature: cleaned ticket number, sequence,
\* created-at, duration, tech and notes.
SameCoarse(a, b) ==
    /\ CleanedNumber(a.ticket_number) = CleanedNumber(b.ticket_number)
    /\ a.entry_sequence = b.entry_sequence
    /\ a.created_at = b.created_at
    /\ a.duration_minutes = b.duration_minutes
    /\ _normalize_text_lower(a.tech) = _normalize_text_lower(b.tech)
    /\ _normalize_text(a.notes) = _normalize_text(b.notes)

\* C7: of two rows with the same coarse signature, the later one in
\* processing order is skipped as a duplicate at once and no external call
\* is made for it.
C7_LaterCoarseDuplicateMakesNoCall ==
    \A i \in Rows, j \in Rows :
        (i < j /\ SameCoarse(sorted_entries[i], sorted_entries[j]))
            => /\ \A k \in 1..Len(api_calls) : api_calls[k].row # j
               /\ trail[j] \in {<<>>, <<"PENDING", "SKIPPED_DUPLICATE">>}

\* In a second run, against a helpdesk that holds timers, a row written
\* differently from an earlier row with the same coarse signature was
\* skipped, after a create call for the earlier row.
C7_Witness ==
    \E i \in Rows, j \in Rows :
        /\ i < j
        /\ SameCoarse(sorted_entries[i], sorted_entries[j])
        /\ sorted_entries[i] # sorted_entries[j]
        /\ trail[j] = <<"PENDING", "SKIPPED_DUPLICATE">>
        /\ \E k \in CallsOf("create") : api_calls[k].row = i
        /\ run_no = 2

\* C8: in one run no two fetches of timer entries are for the same ticket ID.
C8_OneFetchPerTicket ==
    \A k \in CallsOf("fetch"), l \in CallsOf("fetch") :
        k # l => api_calls[k].ticket_id # api_calls[l].ticket_id

\* The fetch for a ticket failed, and a later row of the same ticket went
\* through the duplicate check.
C8_Witness ==
    \E k \in CallsOf("fetch"), j \in Rows :
        /\ ~api_calls[k].ok
        /\ api_calls[k].row < j
        /\ "DUPLICATE_CHECKED" \in Steps(j)
        /\ LaborTicket(CleanedNumber(sorted_entries[j].ticket_number)).id
               = api_calls[k].ticket_id

\* C9: after a failed fetch of a ticket's timer entries the signatures known
\* for the ticket are the empty set, the row is not skipped as a duplicate,
\* and the next external call is the create call for the row.
C9_FailOpen ==
    \A k \in CallsOf("fetch") :
        ~api_calls[k].ok =>
            /\ "SKIPPED_DUPLICATE" \notin Steps(api_calls[k].row)
            /\ k = Len(api_calls) => ticket_timer_cache[api_calls[k].ticket_id] = {}
            /\ k < Len(api_calls) =>
                   /\ api_calls[k + 1].op = "create"
                   /\ api_calls[k + 1].row = api_calls[k].row

\* In a second run the fetch failed for a ticket that holds the timer of
\* the row, and the create call for the row followed.
C9_Witness ==
    \E k \in CallsOf("fetch") :
        /\ ~api_calls[k].ok
        /\ k < Len(api_calls)
        /\ api_calls[k + 1].op = "create"
        /\ run_no = 2
        /\ _make_entry_timer_signature(sorted_entries[api_calls[k].row])
               \in remote_signatures(remote_timers[api_calls[k].ticket_id])

\* The place of a step in the decision procedure
Rank(step) ==
    CASE step = "PENDING" -> 1
      [] step = "TICKET_RESOLVED" -> 2
      [] step = "SIGNATURE_BUILT" -> 3
      [] step = "DUPLICATE_CHECKED" -> 4
      [] step \in TerminalOutcomes -> 5
      [] OTHER -> 6

\* A row takes the steps in their order, none twice, and a create call is
\* made only for a row that was resolved, signed and checked without match.
CreateOnlyAfterChecks ==
    /\ \A i \in Rows : \A k \in 1..(Len(trail[i]) - 1) :
           Rank(trail[i][k]) < Rank(trail[i][k + 1])
    /\ \A k \in CallsOf("create") :
           /\ Len(trail[api_calls[k].row]) >= 4
           /\ SubSeq(trail[api_calls[k].row], 1, 4) =
                  <<"PENDING", "TICKET_RESOLVED", "SIGNATURE_BUILT", "DUPLICATE_CHECKED">>
           /\ "SKIPPED_DUPLICATE" \notin Steps(api_calls[k].row)
    /\ lpc = "create" => entry_timer_signature \notin ticket_timer_cache[ticket_id_int]

\* C10: every row takes the steps of the decision procedure in their order,
\* none twice; a row the run is through with has exactly one terminal
\* outcome; a create call is made only for a row that was resolved, signed
\* and checked without match.
C10_LinearProcedure ==
    /\ CreateOnlyAfterChecks
    /\ \A i \in Rows :
           RowOver(i) => Cardinality(Steps(i) \cap TerminalOutcomes) = 1

\* C11: every charge call comes right after a create call for the same row
\* that returned a truthy response; no row gets two charge calls; a row
\* skipped as invalid or as a duplicate gets none; after a failed charge
\* the row is still SUBMITTED and the loop has moved on past it.
C11_ChargeOnlyAfterCreate ==
    /\ \A k \in CallsOf("charge") :
           /\ k > 1
           /\ api_calls[k - 1].op = "create"
           /\ api_calls[k - 1].row = api_calls[k].row
           /\ api_calls[k - 1].ok
           /\ Steps(api_calls[k].row)
                  \cap {"SKIPPED_INVALID", "SKIPPED_DUPLICATE"} = {}
           /\ ~api_calls[k].ok
                  => /\ "SUBMITTED" \in Steps(api_calls[k].row)
                     /\ idx > api_calls[k].row
    /\ \A k \in CallsOf("charge"), l \in CallsOf("charge") :
           k # l => api_calls[k].row # api_calls[l].row

\* The charge of the first row failed, and the second row was created and
\* charged after it.
C11_Witness ==
    /\ Len(sorted_entries) = 2
    /\ trail[1] = <<"PENDING", "TICKET_RESOLVED", "SIGNATURE_BUILT",
                    "DUPLICATE_CHECKED", "SUBMITTED", "CHARGE_FAILED">>
    /\ "CHARGED" \in Steps(2)
    /\ Cardinality(CallsOf("charge")) = 2

\* The run of run_ticket_labor has ended.
RunOver == lpc \in {"done", "crashed", "aborted"}

\* The file and the reference data were there: a run that was aborted was
\* aborted over the rows of the file.
AbortedOverRows == lpc = "aborted" => load_csv_raises(labor_csv)

\* A required field of the row is missing: a blank cell, a duration or a
\* timestamp that does not parse, a ticket that has no usable ID.
MissingField(row) ==
    \/ blank_cell(row)
    \/ row.duration_minutes.kind # "number"
    \/ parse_comment_created(row.created_at).kind = "none"
    \/ ~LaborTicket(CleanedNumber(row.ticket_number)).found
    \/ LaborTicket(CleanedNumber(row.ticket_number)).id <= 0

Skipped(i) == Steps(i) \cap {"SKIPPED_INVALID", "SKIPPED_DUPLICATE"} # {}

\* The rows with a missing field that the loop reached were skipped and no
\* create call was made for them.
MissingFieldRowMakesNoCreate ==
    \A i \in Rows :
        MissingField(sorted_entries[i])
            => /\ \A k \in CallsOf("create") : api_calls[k].row # i
               /\ (RowOver(i) /\ ~(lpc = "crashed" /\ idx = i)) => Skipped(i)

\* C12: a row with a missing required field is skipped with no create call
\* for it, and when the run has ended every row of the CSV file has been
\* processed to an outcome.
C12_MissingFieldSkipsOnlyTheRow ==
    (RunOver /\ AbortedOverRows /\ \E i \in 1..Len(labor_csv) : MissingField(labor_csv[i]))
        => /\ Len(sorted_entries) = Len(labor_csv)
           /\ \A i \in Rows :
                  /\ Steps(i) \cap TerminalOutcomes # {}
                  /\ MissingField(sorted_entries[i])
                         => /\ Skipped(i)
                            /\ \A k \in CallsOf("create") : api_calls[k].row # i

ZeroDuration(row) ==
    row.duration_minutes.kind = "number" /\ IntOfFloat(row.duration_minutes.tenths) = 0

\* A row with a zero duration is never submitted: no timer fetch, no create
\* call and no charge call is made for it, and it ends as skipped.
ZeroDurationNeverSubmitted ==
    \A i \in Rows :
        ZeroDuration(sorted_entries[i])
            => /\ \A k \in 1..Len(api_calls) :
                      api_calls[k].row = i => api_calls[k].op = "lookup"
               /\ RowOver(i) => Skipped(i)

\* C13: no external call at all (ticket lookup, timer fetch, create,
\* charge) is made for a row whose duration is "0", and the row is skipped.
C13_ZeroDurationMakesNoCall ==
    \A i \in Rows :
        ZeroDuration(sorted_entries[i])
            => /\ \A k \in 1..Len(api_calls) : api_calls[k].row # i
               /\ RowOver(i) => Skipped(i)

\* C14: no row gets two create calls in a run; a row whose create call
\* failed is a failed creation, gets no further call, and the loop has moved
\* on past it.
C14_NoRetry ==
    /\ \A k \in CallsOf("create"), l \in CallsOf("create") :
           k # l => api_calls[k].row # api_calls[l].row
    /\ \A k \in CallsOf("create") :
           ~api_calls[k].ok
               => /\ "CREATE_FAILED" \in Steps(api_calls[k].row)
                  /\ \A l \in 1..Len(api_calls) :
                         l > k => api_calls[l].row # api_calls[k].row
                  /\ idx > api_calls[k].row

\* The create call of the first row failed and the second row was created
\* after it.
C14_Witness ==
    /\ Len(sorted_entries) = 2
    /\ "CREATE_FAILED" \in Steps(1)
    /\ \E k \in CallsOf("create"), l \in CallsOf("create") :
           /\ k < l
           /\ api_calls[k].row = 1 /\ ~api_calls[k].ok
           /\ api_calls[l].row = 2 /\ api_calls[l].ok
    /\ lpc = "done"

\* C15: no exception leaves the loop of run_ticket_labor or of the ad-hoc
\* run(), and a run that has ended after its setup has visited every row.
C15_LoopRunsToItsEnd ==
    /\ lpc # "crashed"
    /\ apc # "crashed"
    /\ lpc = "done" => \A i \in Rows : trail[i] # <<>>

\* The number a cleaned ticket number (a sequence of digits) writes.
RECURSIVE NumberValue(_)
NumberValue(digits) ==
    IF digits = <<>> THEN 0
    ELSE 10 * NumberValue(SubSeq(digits, 1, Len(digits) - 1)) + digits[Len(digits)]

TicketNumberOf(i) == NumberValue(CleanedNumber(sorted_entries[i].ticket_number))

\* The rows of one ticket are processed in ascending sequence number.
AscendingSequenceWithinTicket ==
    \A i \in Rows, j \in Rows :
        (i < j /\ TicketNumberOf(i) = TicketNumberOf(j))
            => sorted_entries[i].entry_sequence <= sorted_entries[j].entry_sequence

\* C16: the labor rows are processed in ascending ticket number, and within
\* a ticket in ascending sequence number: a row of ticket 9 comes before a
\* row of ticket 10.
C16_AscendingTicketNumber ==
    \A i \in Rows, j \in Rows :
        i < j => \/ TicketNumberOf(i) < TicketNumberOf(j)
                 \/ /\ TicketNumberOf(i) = TicketNumberOf(j)
                    /\ sorted_entries[i].entry_sequence
                           <= sorted_entries[j].entry_sequence

\* C17: a run of run_ticket_labor whose setup failed has processed no row:
\* no step of the decision procedure was taken and no external call was
\* made; and a CSV file that does not load never gets past the setup.
C17_SetupFailureAborts ==
    /\ lpc = "aborted"
           => /\ api_calls = <<>>
              /\ trail = <<>>
              /\ sorted_entries = <<>>
              /\ entries_attempted = 0
    /\ load_csv_raises(labor_csv) => lpc \in {"setup", "aborted"}

\* The run was aborted over a file of two rows, one of them with a blank
\* cell and one that the loop would have submitted.
C17_Witness ==
    /\ lpc = "aborted"
    /\ Len(labor_csv) = 2
    /\ blank_cell(labor_csv[1])
    /\ ~MissingField(labor_csv[2])

\* The records of the reference data that the contact name matches exactly
\* once both are stripped and lower-cased, among those of the customer.
ExactMatches(args) ==
    {i \in 1..Len(args.contacts_data) :
        /\ args.customerid # 0
        /\ args.contacts_data[i].customer_id = args.customerid
        /\ args.contacts_data[i].id # 0
        /\ args.contacts_data[i].name.s # ""
        /\ args.contacts_data[i].name.s = args.contact.s}

\* C19: the contact returned is a record of the given customer whose name
\* equals the contact name once both are stripped and lower-cased; with no
\* such record nothing is returned and neither caller sends a contact_id.
C19_ExactContactOfCustomer ==
    fn_result.fn = "get_syncro_customer_contact"
        => /\ fn_result.match.found
                  => \E i \in ExactMatches(fn_args) :
                         fn_result.match.id = fn_args.contacts_data[i].id
           /\ ExactMatches(fn_args) = {}
                  => /\ ~fn_result.match.found
                     /\ "contact_id" \notin DOMAIN fn_result.adhoc_payload
                     /\ "contact_id" \notin DOMAIN fn_result.combined_json

\* A contact of the customer was returned while the reference data held a
\* contact of the same name under another customer.
C19_Witness ==
    /\ fn_result.fn = "get_syncro_customer_contact"
    /\ fn_result.match.found
    /\ fn_result.match.id = 11
    /\ \E i \in 1..Len(fn_args.contacts_data) :
           /\ fn_args.contacts_data[i].customer_id # fn_args.customerid
           /\ fn_args.contacts_data[i].name.s = fn_args.contact.s

\* No match: a name that a contact's name only begins with was looked up
\* and nothing was returned.
C19_WitnessNoMatch ==
    /\ fn_result.fn = "get_syncro_customer_contact"
    /\ fn_args.contact.s = "ann l"
    /\ fn_args.customerid = 7
    /\ \E i \in 1..Len(fn_args.contacts_data) : fn_args.contacts_data[i].id = 11
    /\ ~fn_result.match.found

\* A JSON value that is null or an empty string.
NullOrEmpty(v) ==
    \/ v.type = "null"
    \/ v.type = "str" /\ v.val = <<>>
    \/ v.type = "text" /\ ~Truthy(v.val)

\* No key of the ticket body has the value null.
NoNullInTicketBody ==
    fn_result.fn = "syncro_prepare_ticket_combined_json"
        => \A key \in DOMAIN fn_result.ticket_json :
               fn_result.ticket_json[key].type # "null"

\* C18: no key of the body handed to the create call for a ticket has a
\* value that is null or empty.
C18_NoNullOrEmptyValue ==
    fn_result.fn = "syncro_prepare_ticket_combined_json"
        => \A key \in DOMAIN fn_result.ticket_json :
               ~NullOrEmpty(fn_result.ticket_json[key])

\* What parse_comment_created returns when it returns: a datetime as it was
\* given, None for None and for "", and else a datetime or None.
ParserReturnsInstantOrNone ==
    (fn_result.fn = "parse_comment_created" /\ ~fn_result.raised)
        => /\ fn_args.is_datetime => fn_result.value = fn_args.comment_created
           /\ fn_args.comment_created.kind = "none" => fn_result.value = NoStamp
           /\ fn_result.value.kind \in {"naive", "aware", "none"}

\* C20: parse_comment_created never raises, whatever its argument (a
\* datetime, None, "" or any string), and returns as above.
C20_ParserIsTotal ==
    /\ fn_result.fn = "parse_comment_created" => ~fn_result.raised
    /\ ParserReturnsInstantOrNone

\* C21: get_syncro_created_date renders a naive instant as wall-clock time of
\* the configured zone, and an instant that already carries a zone is
\* converted to the configured zone without failing.
C21_LocalizesEveryInstant ==
    /\ \A i \in DOMAIN events :
          events[i].created_at = events[i].at \div TicksPerSecond
    /\ ~(/\ apc = "crashed"
         /\ get_syncro_created_date_raises(
                BaseDatetime(ticketIn, defaults, baseNow)))

\* A payload in hand was made of a duration that is a number above zero,
\* and its end_at is its start_at plus that many minutes.
PayloadOfPositiveDuration ==
    lpc \in {"fetch", "create", "charge"}
        => /\ payload.ok
           /\ Entry.duration_minutes.kind = "number"
           /\ payload.duration_minutes = IntOfFloat(Entry.duration_minutes.tenths)
           /\ payload.duration_minutes > 0
           /\ payload.end_at.wall =
                  payload.start_at.wall + payload.duration_minutes * SecondsPerMinute

NoUsableDuration(row) ==
    \/ row.duration_minutes.kind # "number"
    \/ IntOfFloat(row.duration_minutes.tenths) <= 0

\* C22: a labor payload is made only of a duration that coerces to a number
\* above zero, with end_at = start_at + that many minutes; a zero, negative
\* or unparseable duration gives no payload for that row only: the row is
\* skipped and the run goes on.
C22_PayloadOnlyForPositiveDuration ==
    /\ PayloadOfPositiveDuration
    /\ \A i \in Rows :
          NoUsableDuration(sorted_entries[i])
              => /\ ~(lpc = "crashed" /\ idx = i)
                 /\ RowOver(i) => Skipped(i)

\* run_ticket_labor, lines 572-573: what the run reports when it ends
run_ticket_labor_report == [api_calls |-> Len(api_calls)]

CountNames == {"created", "skipped", "duplicate", "failed"}

\* The groups the loop of run_invoice_import has visited are counted in
\* exactly one of its three counts.
InvoiceGroupsCountedOnce ==
    ipc \in {"loop", "done"}
        => imported + skipped_duplicates + failed = group_idx - 1

\* C23: when an import run ends, counts of created, skipped, duplicate and
\* failed entries are reported and their sum is the number of rows the loop
\* visited.
C23_EveryRowCountedOnce ==
    lpc = "done"
        => LET report == run_ticket_labor_report
           IN  /\ CountNames \subseteq DOMAIN report
               /\ report.created + report.skipped + report.duplicate
                      + report.failed
                    = Cardinality({i \in Rows : trail[i] # <<>>})

\* The create calls for a normalized invoice number.
CreateCallsFor(invoice_number) ==
    {k \in 1..Len(invoice_calls) : invoice_calls[k].number = invoice_number}

C30_WitnessExisting ==
    /\ ipc = "done"
    /\ remote_invoices = {<<1, 2>>}
    /\ Len(grouped_rows) = 1
    /\ invoice_rows[1].invoice_number = <<32, 1, 2>>
    /\ invoice_calls = <<>>
    /\ skipped_duplicates = 1

\* The cleaned ticket number a call was made for.
NumberOfCall(k) == CleanedNumber(sorted_entries[api_calls[k].row].ticket_number)

\* C24: in one run the ticket of a cleaned number is looked up at most once;
\* when the lookup found nothing or raised, every later row with that
\* cleaned number is skipped with no call made for it.
C24_OneLookupPerNumber ==
    /\ \A k \in CallsOf("lookup"), l \in CallsOf("lookup") :
           k # l => NumberOfCall(k) # NumberOfCall(l)
    /\ \A k \in CallsOf("lookup"), i \in Rows :
           (/\ i > api_calls[k].row
            /\ CleanedNumber(sorted_entries[i].ticket_number) = NumberOfCall(k)
            /\ ~ticket_cache[NumberOfCall(k)].found
            /\ RowOver(i))
               => /\ Skipped(i)
                  /\ \A l \in 1..Len(api_calls) : api_calls[l].row # i

\* The lookup of ticket 10 raised for the first row; the second row of
\* ticket 10, a different entry, was skipped and the run made one call.
C24_Witness ==
    /\ lpc = "done"
    /\ Len(sorted_entries) = 2
    /\ \A i \in Rows : CleanedNumber(sorted_entries[i].ticket_number) = <<1, 0>>
    /\ _make_entry_signature(sorted_entries[1]) # _make_entry_signature(sorted_entries[2])
    /\ Len(api_calls) = 1
    /\ api_calls[1].op = "lookup" /\ ~api_calls[1].ok
    /\ trail[2] = <<"PENDING", "SKIPPED_INVALID">>

Parseable(value) == value.kind \in {"naive", "aware"}

\* The minute of the instant a timestamp string denotes, a naive one taken
\* as wall-clock time of the configured zone.
UtcMinute(value) == UtcSeconds(value) \div SecondsPerMinute

\* When _normalize_timestamp returns: two parseable timestamps have equal
\* signature timestamps exactly when their instants fall in the same minute
\* of UTC, and text the parser rejects gives the raw trimmed string.
SameMinuteSameTimestamp ==
    (fn_result.fn = "_normalize_timestamp" /\ ~fn_result.raised)
        => /\ (Parseable(fn_args.a) /\ Parseable(fn_args.b))
                  => ((fn_result.a = fn_result.b)
                          <=> (UtcMinute(fn_args.a) = UtcMinute(fn_args.b)))
           /\ fn_args.a.kind = "bad" => fn_result.a = SigTime("raw", fn_args.a.wall)

\* C25: the signature timestamps of two parseable timestamps are equal
\* exactly when the two instants fall in the same minute of UTC; the
\* signature timestamp of an unparseable value is the raw trimmed string.
C25_SameMinuteSameTimestamp ==
    fn_result.fn = "_normalize_timestamp"
        => /\ (Parseable(fn_args.a) /\ Parseable(fn_args.b))
                  => ((fn_result.a = fn_result.b)
                          <=> (UtcMinute(fn_args.a) = UtcMinute(fn_args.b)))
           /\ ~Parseable(fn_args.a) /\ fn_args.a.kind # "none"
                  => /\ ~fn_result.raised
                     /\ fn_result.a = SigTime("raw", fn_args.a.wall)

\* The tech fields of a remote timer in their order of priority.
TechFieldsInOrder == <<"tech", "user_name", "user", "user_id", "userId", "userID">>

\* What the value of one tech field gives as the tech of a signature: an
\* object is read through its name fields, an ID through the directory.
TechOfValue(v) ==
    LET inner == IF v.kind = "dict"
                 THEN OrVal(<<TextVal(v.sub.name), TextVal(v.sub.full_name),
                              TextVal(v.sub.display_name), TextVal(v.sub.email),
                              IdVal(v.sub.id)>>)
                 ELSE v
    IN  _normalize_text_lower(candidate_name(inner))

\* The tech of the first field in priority order that is not empty; a field
\* counts as empty when it is absent or "" (blanksAreEmpty = FALSE), or also
\* when it holds nothing but blanks (blanksAreEmpty = TRUE).
TechByPriority(timer, blanksAreEmpty) ==
    LET values == [i \in 1..Len(TechFieldsInOrder) |-> timer[TechFieldsInOrder[i]]]
        nonempty == [i \in 1..Len(values) |->
                        IF blanksAreEmpty THEN Truthy(TechOfValue(values[i]))
                        ELSE ValTruthy(values[i])]
    IN  TechOfValue(values[FirstTrue(nonempty)])

\* The notes and the start time of a remote signature are those of the
\* first non-empty field in the listed order.
NotesAndTimeByPriority ==
    fn_result.fn = "_make_remote_timer_signature"
        => LET timer == fn_args.timer
               notes == [i \in 1..Len(NotesFields) |-> timer[NotesFields[i]]]
               times == [i \in 1..Len(TimeFields) |-> timer[TimeFields[i]]]
           IN  /\ fn_result.value.notes =
                      _normalize_text(notes[FirstTrue([i \in 1..Len(notes) |->
                                                          Truthy(notes[i])])])
               /\ fn_result.value.ts =
                      _normalize_timestamp(times[FirstTrue([i \in 1..Len(times) |->
                                                          StampTruthy(times[i])])])

\* C26: the remote signature takes, for each of notes, tech and start time,
\* the first non-empty value in the priority order of the field names; a
\* lower-priority field is used only when every higher-priority field is
\* absent or empty.
C26_FirstNonEmptyFieldWins ==
    /\ NotesAndTimeByPriority
    /\ fn_result.fn = "_make_remote_timer_signature"
           => fn_result.value.tech \in {TechByPriority(fn_args.timer, FALSE),
                                        TechByPriority(fn_args.timer, TRUE)}

\* The run stopped at row idx for its limit: no row after it was taken and
\* no call was made for one.
NoRowAfterTheLimit ==
    (lpc = "done" /\ entries_attempted >= max_entries)
        => \A i \in Rows :
               i > idx => /\ trail[i] = <<>>
                          /\ \A k \in 1..Len(api_calls) : api_calls[k].row # i

TimerSignatureOf(i) == _make_entry_timer_signature(sorted_entries[i])

\* The signatures memoized for a ticket ID, none before its first fetch.
Memoized(ticket_id) ==
    IF ticket_id \in DOMAIN ticket_timer_cache
    THEN ticket_timer_cache[ticket_id] ELSE {}

\* The signature of a row whose create call succeeded is memoized for its
\* ticket once the row is over.
CreatedSignatureMemoized ==
    \A k \in CallsOf("create") :
        (api_calls[k].ok /\ RowOver(api_calls[k].row))
            => TimerSignatureOf(api_calls[k].row) \in Memoized(api_calls[k].ticket_id)

\* A later row of the same ticket with the signature of a created row gets
\* no create call.
LaterSameSignatureNotCreated ==
    \A k \in CallsOf("create"), l \in CallsOf("create") :
        (/\ k < l
         /\ api_calls[k].ok
         /\ api_calls[k].ticket_id = api_calls[l].ticket_id)
            => TimerSignatureOf(api_calls[k].row) # TimerSignatureOf(api_calls[l].row)

\* The signature of a row whose create call failed is not memoized, unless
\* the helpdesk holds a timer with it.
FailedSignatureNotMemoized ==
    \A k \in CallsOf("create") :
        (/\ ~api_calls[k].ok
         /\ TimerSignatureOf(api_calls[k].row)
                \notin remote_signatures(remote_timers[api_calls[k].ticket_id]))
            => TimerSignatureOf(api_calls[k].row) \notin Memoized(api_calls[k].ticket_id)

\* Within a run the set memoized for a ticket loses no signature.
MemoizedOnlyGrows ==
    run_no' = run_no
        => \A t \in DOMAIN ticket_timer_cache :
               /\ t \in DOMAIN ticket_timer_cache'
               /\ ticket_timer_cache[t] \subseteq ticket_timer_cache'[t]

MemoizedNeverShrinks == [][MemoizedOnlyGrows]_vars

\* C28: after a successful create call the row's timer signature is in the
\* set memoized for its ticket, so a later row of the run on the same ticket
\* with the same signature is not created again; after a failed create call
\* the signature is not added; the set never loses a signature in a run.
C28_CreatedSignatureIsRemembered ==
    /\ [](CreatedSignatureMemoized /\ LaterSameSignatureNotCreated
              /\ FailedSignatureNotMemoized)
    /\ MemoizedNeverShrinks

(***************************************************************************)
(* Properties of the combined import.                                      *)
(***************************************************************************)
CreateRequests == {k \in DOMAIN combined_calls : combined_calls[k].op = "create_ticket"}

\* A step sends a create request for a ticket only under a number no ticket
\* of the helpdesk has at that moment.
NoCreateRequestForTakenNumber ==
    \A k \in DOMAIN combined_calls' :
        (k > Len(combined_calls) /\ combined_calls'[k].op = "create_ticket")
            => combined_calls'[k].number \notin remoteTickets

\* A ticket number of the CSV that main's lookup found passes without a
\* create request for the ticket or for any of its comments.
FoundTicketIsPassedOver ==
    \A k \in DOMAIN combined_calls :
        combined_calls[k].op = "exists" =>
            \A j \in DOMAIN combined_calls :
                combined_calls[j].key = combined_calls[k].key => j = k

\* C29: ticket creation never duplicates a ticket number: no create request
\* is sent for a ticket whose number a ticket of the helpdesk already has,
\* and in the combined import a ticket number found to exist has neither its
\* ticket nor any of its comments created.
C29_NoDuplicateTicketNumber ==
    /\ [][NoCreateRequestForTakenNumber]_vars
    /\ []FoundTicketIsPassedOver

\* The import is over; one ticket of the CSV was found by main's lookup and
\* passed over, and another, whose digits are a taken number, was stopped by
\* the lookup of syncro_create_ticket.
C29_Witness ==
    /\ cpc = "done"
    /\ \E k \in DOMAIN combined_calls : combined_calls[k].op = "exists"
    /\ \E k \in DOMAIN combined_calls :
          /\ combined_calls[k].op = "absent"
          /\ tickets_in_order[ticket_index - 1].key = combined_calls[k].key
          /\ tickets_in_order[ticket_index - 1].bodies # <<>>
          /\ clean_syncro_ticket_number(combined_calls[k].key) \in remoteTickets
    /\ CreateRequests = {}

====
